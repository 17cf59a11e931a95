---------------------------- MODULE WorkerProofs ----------------------------
(***************************************************************************)
(* Proofs about one client machine at work, module Worker, for every value  *)
(* of its constants.                                                        *)
(***************************************************************************)
EXTENDS Worker, SequenceTheorems, TLAPS

(* Children that run_process() starts when another child has failed.         *)
Rescuers == {"dnsupdater --restore", "archiver", "uploader"}

(* Where a call is while it waits for the call it made.                      *)
Waiting == {"restoring", "archived", "uploaded"}

(* The call stack: the child of the stage at its bottom, rescuers above it,  *)
(* and only the innermost call is not waiting for another.                   *)
StackInv ==
    /\ stage # 0 => job \in Jobs /\ workdirs[job] >= 1
    /\ frames # <<>> <=> stage \in 1 .. 14
    /\ frames # <<>> => frames[1].proc = Stages[stage]
    /\ \A i \in 2 .. Len(frames) : frames[i].proc \in Rescuers
    /\ \A i \in 1 .. Len(frames) - 1 : frames[i].at \in Waiting

TypeInv == TypeOK /\ StackInv

(* The child of the stage itself is running.                                 *)
InStage == frames # <<>> /\ frames[1].at = "running"

Restoring(i) == frames[i].at = "restoring"
NoneRestoring == \A i \in 1 .. Len(frames) : ~Restoring(i)

(* The two flags.  While some call restores the DNS they say that there is   *)
(* nothing to do; what there is to do is in the flags that one of those      *)
(* calls, the outermost, has put aside.                                      *)
FlagsOfStage ==
    InStage => /\ archive_on_failure <=> stage < 13
               /\ uploaded <=> stage > 13

ArchiveFlag == archive_on_failure => calls["archiver"] = 0 /\ NoneRestoring
UploadFlag == ~uploaded => calls["uploader"] = 0 /\ NoneRestoring

ArchiveAside ==
    \A i \in 1 .. Len(frames) : Restoring(i) /\ frames[i].archive =>
        calls["archiver"] = 0 /\ \A k \in 1 .. i - 1 : ~Restoring(k)
UploadAside ==
    \A i \in 1 .. Len(frames) : Restoring(i) /\ ~frames[i].uploaded =>
        calls["uploader"] = 0 /\ \A k \in 1 .. i - 1 : ~Restoring(k)

(* What is still to be done is in a flag,                                    *)
ArchiveDue ==
    calls["archiver"] = 0 =>
        \/ archive_on_failure
        \/ \E i \in 1 .. Len(frames) : Restoring(i) /\ frames[i].archive
UploadDue ==
    calls["uploader"] = 0 =>
        \/ ~uploaded
        \/ \E i \in 1 .. Len(frames) : Restoring(i) /\ ~frames[i].uploaded

(* and a call that has gone past it has done it, or left it to an outer one.  *)
ArchivePassed ==
    \A i \in 1 .. Len(frames) : frames[i].at \in {"archived", "uploaded"} =>
        calls["archiver"] # 0 \/ \E k \in 1 .. i - 1 : Restoring(k)
UploadPassed ==
    \A i \in 1 .. Len(frames) : frames[i].at = "uploaded" =>
        calls["uploader"] # 0 \/ \E k \in 1 .. i - 1 : Restoring(k)

DutiesInv ==
    /\ FlagsOfStage
    /\ ArchiveFlag /\ UploadFlag
    /\ ArchiveAside /\ UploadAside
    /\ ArchiveDue /\ UploadDue
    /\ ArchivePassed /\ UploadPassed

OnceInv ==
    /\ ArchivedAndUploadedOnce
    /\ stage # 0 => DutiesInv
-----------------------------------------------------------------------------
(* The DNS is to be restored when the child of one of these stages fails.    *)
ResetRemembered == stage \in 6 .. 8 => need_dns_reset

(* srdnscheck has passed.                                                    *)
DnsChecked == stage \in {7, 8} /\ InStage => dns # "public"

(* srdnsupdater has passed.                                                  *)
DnsUpdated ==
    faults["updates"] = 0 /\ stage \in 6 .. 8 /\ InStage => dns = Netconfig[job]

(* A netconfig is resolved from srdnsupdater to the end of the one that       *)
(* restores the DNS, which is the first to run when a child fails.           *)
Restoration ==
    \/ InStage /\ stage \in 6 .. 9
    \/ Len(frames) = 1 /\ At("failed") /\ stage \in 6 .. 8
    \/ /\ Len(frames) = 2 /\ Running("dnsupdater --restore")
       /\ stage \in 6 .. 8

DnsAstray ==
    faults["updates"] = 0 /\ faults["deaths"] = 0 /\ dns # "public" => Restoration

DnsInv == ResetRemembered /\ DnsChecked /\ DnsUpdated /\ DnsAstray

(* The packets of j are in no capture.                                       *)
Unsniffed(j) ==
    /\ \A nc \in NETCONFIGS : j \notin pcaps[nc].traffic
    /\ \A i \in Jobs : j \notin saved[i]

(* A job has sent no packets before its first test has begun.                *)
NotYetTested(j) ==
    \/ workdirs[j] = 0
    \/ j = job /\ workdirs[j] = 1 /\ InStage /\ stage <= 8

(* They are in one place: a capture of a server, or one that was saved.      *)
InOnePlace(j) ==
    /\ \A n1, n2 \in NETCONFIGS :
            j \in pcaps[n1].traffic /\ j \in pcaps[n2].traffic => n1 = n2
    /\ \A nc \in NETCONFIGS, i \in Jobs :
            j \in pcaps[nc].traffic => j \notin saved[i]
    /\ \A i1, i2 \in Jobs : j \in saved[i1] /\ j \in saved[i2] => i1 = i2

PacketsInv ==
    \A j \in Jobs : /\ NotYetTested(j) => Unsniffed(j)
                    /\ workdirs[j] <= 1 => InOnePlace(j)
-----------------------------------------------------------------------------
(* The stages by their numbers.                                              *)
LEMMA StageNames ==
    /\ Len(Stages) = 14 /\ Done = 15
    /\ \A i \in 1 .. 14 :
        /\ Stages[i] = "dnsupdater" <=> i = 5
        /\ Stages[i] = "dnscheck" <=> i = 6
        /\ Stages[i] = "runner" <=> i = 8
        /\ Stages[i] = "dnsupdater --restore" <=> i = 9
        /\ Stages[i] = "dnscheck --public" <=> i = 10
        /\ Stages[i] = "collator" <=> i = 12
        /\ Stages[i] = "archiver" <=> i = 13
        /\ Stages[i] = "uploader" <=> i = 14
BY DEF Stages, Done

LEMMA CallIsFrame ==
    /\ \A i \in 1 .. 14 : Call(Stages[i]) \in Frame
    /\ \A p \in Rescuers : Call(p) \in Frame
<1>1. \A i \in 1 .. 14 : Call(Stages[i]) \in Frame
  BY StageNames DEF Call, Frame
<1>2. Rescuers = {Stages[9], Stages[13], Stages[14]}
  BY DEF Rescuers, Stages
<1> QED BY <1>1, <1>2

LEMMA Sizes ==
    \A n \in Nat : n = 0 \/ n = 1 \/ (n > 1 /\ n - 1 \in Nat /\ 1 \in 1 .. n - 1)
<1> TAKE n \in Nat
<1>1. n = 0 \/ n = 1 \/ n >= 2
  OBVIOUS
<1>2. ASSUME n >= 2
      PROVE  n > 1 /\ n - 1 \in Nat /\ 1 \in 1 .. n - 1
  BY <1>2
<1> QED BY <1>1, <1>2

LEMMA MoreThanOne == \A n \in Nat : n > 1 => n # 1 /\ n # 0
OBVIOUS

(* A stack of one call.                                                      *)
LEMMA OneCall ==
    ASSUME NEW f \in Frame
    PROVE  /\ <<f>> \in Seq(Frame)
           /\ Len(<<f>>) = 1
           /\ <<f>> # <<>>
           /\ <<f>>[1] = f
OBVIOUS

LEMMA StackTypes ==
    ASSUME TypeOK
    PROVE  /\ frames \in Seq(Frame)
           /\ Len(frames) \in Nat
           /\ \A i \in 1 .. Len(frames) : frames[i] \in Frame
           /\ frames # <<>> <=> Len(frames) > 0
           /\ frames # <<>> => Top \in Frame /\ Len(frames) \in 1 .. Len(frames)
<1>1. frames \in Seq(Frame)
  BY DEF TypeOK
<1>2. /\ Len(frames) \in Nat
      /\ \A i \in 1 .. Len(frames) : frames[i] \in Frame
  BY <1>1
<1>3. frames # <<>> <=> Len(frames) > 0
  BY <1>1, <1>2, EmptySeq
<1> QED
  BY <1>1, <1>2, <1>3 DEF Top

(* The innermost call goes on to another place.                              *)
LEMMA Moved ==
    ASSUME TypeOK, frames # <<>>,
           NEW place \in {"running", "failed", "restoring", "restored",
                          "archived", "uploaded"}
    PROVE  /\ MovesTo(place) \in Seq(Frame)
           /\ Len(MovesTo(place)) = Len(frames)
           /\ \A i \in 1 .. Len(frames) - 1 : MovesTo(place)[i] = frames[i]
           /\ MovesTo(place)[Len(frames)] = [Top EXCEPT !.at = place]
<1> DEFINE f == [Top EXCEPT !.at = place]
<1>1. f \in Frame
  BY StackTypes DEF Frame
<1>2. MovesTo(place) = [frames EXCEPT ![Len(frames)] = f]
  BY StackTypes DEF MovesTo, Top
<1>3. /\ [frames EXCEPT ![Len(frames)] = f] \in Seq(Frame)
      /\ Len([frames EXCEPT ![Len(frames)] = f]) = Len(frames)
      /\ \A j \in 1 .. Len(frames) :
            [frames EXCEPT ![Len(frames)] = f][j]
                = IF j = Len(frames) THEN f ELSE frames[j]
  BY <1>1, StackTypes, ExceptSeq
<1> QED
  BY <1>2, <1>3, StackTypes

(* The innermost call returns.                                               *)
LEMMA Popped ==
    ASSUME TypeOK, frames # <<>>
    PROVE  /\ Pop \in Seq(Frame)
           /\ Len(Pop) = Len(frames) - 1
           /\ \A i \in 1 .. Len(frames) - 1 : Pop[i] = frames[i]
           /\ Pop # <<>> <=> Len(frames) > 1
<1> DEFINE n == Len(frames) - 1
<1>1. n \in Nat /\ \A i \in 1 .. n : frames[i] \in Frame
  BY StackTypes
<1>2. /\ Pop \in Seq(Frame)
      /\ Len(Pop) = n
      /\ \A i \in 1 .. n : Pop[i] = frames[i]
  <2>1. Pop = SubSeq(frames, 1, n)
    BY DEF Pop
  <2> HIDE DEF n
  <2>2. /\ SubSeq(frames, 1, n) \in Seq(Frame)
        /\ Len(SubSeq(frames, 1, n)) = IF 1 <= n THEN n - 1 + 1 ELSE 0
        /\ \A i \in 1 .. n - 1 + 1 :
                SubSeq(frames, 1, n)[i] = frames[1 + i - 1]
    BY <1>1, SubSeqProperties
  <2>3. n - 1 + 1 = n /\ \A i \in 1 .. n : 1 + i - 1 = i
    BY <1>1
  <2>4. Len(SubSeq(frames, 1, n)) = n
    BY <1>1, <2>2
  <2> QED BY <2>1, <2>2, <2>3, <2>4
<1>3. Pop # <<>> <=> Len(frames) > 1
  BY <1>2, StackTypes, EmptySeq
<1> QED BY <1>2, <1>3

(* The innermost call becomes f and makes a call of its own, g.              *)
LEMMA Pushed ==
    ASSUME NEW s \in Seq(Frame), s # <<>>, NEW g \in Frame
    PROVE  /\ Append(s, g) \in Seq(Frame)
           /\ Append(s, g) # <<>>
           /\ Len(Append(s, g)) = Len(s) + 1
           /\ \A i \in 1 .. Len(s) : Append(s, g)[i] = s[i]
           /\ Append(s, g)[Len(s) + 1] = g
BY AppendProperties

(* The innermost call puts the flags aside to restore the DNS.               *)
AsideTop == [Top EXCEPT !.at = "restoring", !.archive = archive_on_failure,
                        !.uploaded = uploaded]
Aside == [frames EXCEPT ![Len(frames)] = AsideTop]

LEMMA PutAside ==
    ASSUME TypeOK, frames # <<>>
    PROVE  /\ Aside \in Seq(Frame)
           /\ Len(Aside) = Len(frames)
           /\ Aside # <<>>
           /\ \A i \in 1 .. Len(frames) - 1 : Aside[i] = frames[i]
           /\ Aside[Len(frames)] = AsideTop
<1>1. AsideTop \in Frame
  BY StackTypes DEF AsideTop, Frame, TypeOK
<1>2. /\ Aside \in Seq(Frame)
      /\ Len(Aside) = Len(frames)
      /\ \A j \in 1 .. Len(frames) :
            Aside[j] = IF j = Len(frames) THEN AsideTop ELSE frames[j]
  BY <1>1, StackTypes, ExceptSeq DEF Aside
<1>3. Aside # <<>>
  BY <1>2, StackTypes, EmptySeq
<1> QED BY <1>2, <1>3, StackTypes

LEMMA RestoreDnsPushes ==
    ASSUME TypeOK, RestoreDns
    PROVE  frames' = Append(Aside, Call("dnsupdater --restore"))
BY DEF RestoreDns, Aside, AsideTop, Top, RestoresDns, At
-----------------------------------------------------------------------------
(* What a step does to the calls and flags of srworker, whatever it does     *)
(* outside.                                                                  *)
LEMMA StepKinds ==
    ASSUME Next
    PROVE  \/ Receive \/ Return \/ StartOver
           \/ At("running") /\ Fails
           \/ At("running") /\ Returns
           \/ RestoreDns \/ DnsRestored \/ Archive \/ Upload \/ Skip \/ DoError
<1> USE DEF At, Running
<1>1. ASSUME Works
      PROVE  \/ Receive \/ Return \/ StartOver
             \/ At("running") /\ Fails
             \/ At("running") /\ Returns
             \/ RestoreDns \/ DnsRestored \/ Archive \/ Upload \/ Skip
             \/ DoError
  <2>1. ChildSucceeds => At("running") /\ Returns
    BY DEF ChildSucceeds, Effect, CheckPasses, StartCapture, SetDns, ResetDns,
           RunTests, SaveCapture, SendResults, DoesNothing
  <2>2. CheckFails => At("running") /\ Fails
    BY DEF CheckFails
  <2>3. TooDeep => StartOver
    BY DEF TooDeep
  <2> QED BY <1>1, <2>1, <2>2, <2>3 DEF Works
<1>2. ASSUME Suffers
      PROVE  \/ StartOver
             \/ At("running") /\ Fails
             \/ At("running") /\ Returns
  <2>1. ChildFails \/ ChildFailsLate => At("running") /\ Fails
    BY DEF ChildFails, ChildFailsLate, StartCapture, SetDns, ResetDns,
           RunTests, SendResults
  <2>2. ChildIsRefused \/ CaptureNotStarted => At("running") /\ Returns
    BY DEF ChildIsRefused, CaptureNotStarted, Updating, Capturing
  <2>3. CaptureNotRetrieved => At("running") /\ (Returns \/ Fails)
    BY DEF CaptureNotRetrieved
  <2>4. Dies => StartOver
    BY DEF Dies
  <2> QED BY <1>2, <2>1, <2>2, <2>3, <2>4 DEF Suffers
<1> QED
  BY <1>1, <1>2 DEF Next

(* The types of what srworker keeps, of what is outside, and the bounds.     *)
ControlTypeOK ==
    /\ job \in Jobs \union {n + 1 : n \in Jobs} \union {1}
    /\ workdirs \in [Jobs -> 0 .. 2]
    /\ stage \in 0 .. Done
    /\ frames \in Seq(Frame)
    /\ Len(frames) <= RecursionLimit
    /\ need_dns_reset \in BOOLEAN
    /\ archive_on_failure \in BOOLEAN
    /\ uploaded \in BOOLEAN
    /\ calls \in [{"archiver", "uploader"} -> Nat]

WorldTypeOK ==
    /\ PcapperTypeOK
    /\ dns \in NETCONFIGS \union {"public"}
    /\ sent \in [Jobs -> Nat]
    /\ ran \in [Jobs -> SUBSET (NETCONFIGS \union {"public"})]
    /\ saved \in [Jobs -> SUBSET Jobs]

FaultsTypeOK ==
    /\ faults \in [Kinds -> Nat]
    /\ \A kind \in Kinds : faults[kind] <= MaxFaults[kind]

LEMMA TypeOKParts == TypeOK <=> ControlTypeOK /\ WorldTypeOK /\ FaultsTypeOK
BY DEF TypeOK, ControlTypeOK, WorldTypeOK, FaultsTypeOK

LEMMA CountTypes ==
    ASSUME ControlTypeOK, NEW p, Count(p)
    PROVE  calls' \in [{"archiver", "uploader"} -> Nat]
BY DEF ControlTypeOK, Count
-----------------------------------------------------------------------------
(* The stack invariant, for each way in which the stack changes.             *)
LEMMA MovedStack ==
    ASSUME TypeInv, frames # <<>>,
           NEW place \in {"failed", "restoring", "restored", "archived",
                          "uploaded"},
           frames' = MovesTo(place), UNCHANGED <<job, workdirs, stage>>
    PROVE  /\ frames' \in Seq(Frame)
           /\ Len(frames') = Len(frames)
           /\ StackInv'
<1>1. TypeOK /\ StackInv
  BY DEF TypeInv
<1>2. /\ frames' \in Seq(Frame)
      /\ Len(frames') = Len(frames)
      /\ \A i \in 1 .. Len(frames) - 1 : frames'[i] = frames[i]
      /\ frames'[Len(frames)] = [Top EXCEPT !.at = place]
  BY <1>1, Moved
<1>3. /\ frames' # <<>>
      /\ Len(frames) \in Nat \ {0}
      /\ Top \in Frame
  BY <1>1, <1>2, StackTypes, EmptySeq
<1>4. \A i \in 1 .. Len(frames) : frames'[i].proc = frames[i].proc
  BY <1>2, <1>3 DEF Top, Frame
<1> QED
  BY <1>1, <1>2, <1>3, <1>4 DEF StackInv

LEMMA PoppedStack ==
    ASSUME TypeInv, Len(frames) > 1,
           frames' = Pop, UNCHANGED <<job, workdirs, stage>>
    PROVE  /\ frames' \in Seq(Frame)
           /\ Len(frames') <= Len(frames)
           /\ StackInv'
<1>1. TypeOK /\ StackInv
  BY DEF TypeInv
<1>2. Len(frames) \in Nat /\ frames # <<>>
  BY <1>1, StackTypes
<1>3. /\ frames' \in Seq(Frame)
      /\ Len(frames') = Len(frames) - 1
      /\ \A i \in 1 .. Len(frames) - 1 : frames'[i] = frames[i]
      /\ frames' # <<>>
  BY <1>1, <1>2, Popped
<1> QED
  BY <1>1, <1>2, <1>3 DEF StackInv

(* s is the stack of which only the innermost call has changed.              *)
LEMMA PushedStack ==
    ASSUME TypeInv, frames # <<>>, Len(frames) < RecursionLimit,
           NEW s \in Seq(Frame), Len(s) = Len(frames),
           \A i \in 1 .. Len(frames) - 1 : s[i] = frames[i],
           s[Len(frames)].proc = Top.proc, s[Len(frames)].at \in Waiting,
           NEW p \in Rescuers, frames' = Append(s, Call(p)),
           UNCHANGED <<job, workdirs, stage>>
    PROVE  /\ frames' \in Seq(Frame)
           /\ Len(frames') <= RecursionLimit
           /\ StackInv'
<1>1. TypeOK /\ StackInv
  BY DEF TypeInv
<1>2. Len(frames) \in Nat \ {0} /\ s # <<>>
  BY <1>1, StackTypes, EmptySeq
<1>3. /\ frames' \in Seq(Frame)
      /\ frames' # <<>>
      /\ Len(frames') = Len(frames) + 1
      /\ \A i \in 1 .. Len(frames) : frames'[i] = s[i]
      /\ frames'[Len(frames) + 1] = Call(p)
  BY <1>2, Pushed, CallIsFrame
<1>4. \A i \in 1 .. Len(frames) : frames'[i].proc = frames[i].proc
  BY <1>2, <1>3 DEF Top
<1>5. \A i \in 2 .. Len(frames) + 1 : frames'[i].proc \in Rescuers
  BY <1>1, <1>2, <1>3, <1>4 DEF StackInv, Call
<1>6. \A i \in 1 .. Len(frames) : frames'[i].at \in Waiting
  BY <1>1, <1>2, <1>3 DEF StackInv
<1>7. Len(frames') <= RecursionLimit
  BY <1>2, <1>3, WorkerBounds
<1> QED
  BY <1>1, <1>2, <1>3, <1>4, <1>5, <1>6, <1>7 DEF StackInv

LEMMA NewStack ==
    ASSUME NEW f \in Frame, frames' = <<f>>, stage' \in 1 .. 14,
           f.proc = Stages[stage'], job' \in Jobs, workdirs'[job'] >= 1
    PROVE  /\ frames' \in Seq(Frame)
           /\ Len(frames') <= RecursionLimit
           /\ StackInv'
BY OneCall, WorkerBounds DEF StackInv

LEMMA NoStack ==
    ASSUME frames' = <<>>, stage' \in {0, 15},
           stage' # 0 => job' \in Jobs /\ workdirs'[job'] >= 1
    PROVE  /\ frames' \in Seq(Frame)
           /\ Len(frames') <= RecursionLimit
           /\ StackInv'
<1>1. frames' \in Seq(Frame) /\ Len(frames') = 0
  BY EmptySeq
<1> QED BY <1>1, WorkerBounds DEF StackInv
-----------------------------------------------------------------------------
(* Type correctness.                                                         *)
LEMMA NextStageControl ==
    ASSUME TypeInv, At("running"), Len(frames) = 1, NextStage
    PROVE  (ControlTypeOK /\ StackInv)'
<1>1. TypeOK /\ ControlTypeOK /\ StackInv
  BY TypeOKParts DEF TypeInv
<1>2. /\ stage \in 1 .. 14
      /\ job \in Jobs /\ workdirs[job] >= 1
      /\ Len(Stages) = 14 /\ Done = 15
  <2>a. frames # <<>>
    BY DEF At
  <2>1. stage \in 1 .. 14
    BY <1>1, <2>a DEF StackInv
  <2>2. job \in Jobs /\ workdirs[job] >= 1
    BY <1>1, <2>1 DEF StackInv
  <2>3. Len(Stages) = 14 /\ Done = 15
    BY StageNames
  <2> QED BY <2>1, <2>2, <2>3
<1>3. /\ need_dns_reset' \in BOOLEAN
      /\ archive_on_failure' \in BOOLEAN
      /\ uploaded' \in BOOLEAN
  <2>1. need_dns_reset' \in BOOLEAN
    BY <1>1 DEF NextStage, ResetNeeded, ControlTypeOK
  <2>2. archive_on_failure' \in BOOLEAN
    BY DEF NextStage
  <2>3. uploaded' \in BOOLEAN
    BY DEF NextStage
  <2> QED BY <2>1, <2>2, <2>3
<1>4. CASE stage' = Done
  <2>1. stage' = 15 /\ frames' = <<>> /\ UNCHANGED <<job, workdirs, calls>>
    BY <1>2, <1>4 DEF NextStage
  <2>2. frames' \in Seq(Frame) /\ Len(frames') <= RecursionLimit /\ StackInv'
    BY <1>2, <2>1, NoStack
  <2> QED BY <1>1, <1>2, <1>3, <2>1, <2>2 DEF ControlTypeOK
<1>5. CASE stage' # Done
  <2>1. /\ stage' \in 1 .. 14
        /\ frames' = <<Call(Stages[stage'])>>
        /\ Count(Stages[stage'])
        /\ UNCHANGED <<job, workdirs>>
    BY <1>2, <1>5 DEF NextStage
  <2>2. /\ Call(Stages[stage']) \in Frame
        /\ Call(Stages[stage']).proc = Stages[stage']
    BY <2>1, CallIsFrame DEF Call
  <2>3. frames' \in Seq(Frame) /\ Len(frames') <= RecursionLimit /\ StackInv'
    BY <1>2, <2>1, <2>2, NewStack
  <2>4. calls' \in [{"archiver", "uploader"} -> Nat]
    BY <1>1, <2>1, CountTypes
  <2> QED BY <1>1, <1>2, <1>3, <2>1, <2>3, <2>4 DEF ControlTypeOK
<1> QED BY <1>4, <1>5

(* The flags when handle() begins, or is over.                               *)
LEMMA FreshFlags ==
    ASSUME archive_on_failure' = TRUE, uploaded' = FALSE
    PROVE  archive_on_failure' \in BOOLEAN /\ uploaded' \in BOOLEAN
<1>1. archive_on_failure' \in BOOLEAN
  OBVIOUS
<1>2. uploaded' \in BOOLEAN
  OBVIOUS
<1> QED BY <1>1, <1>2

LEMMA ReceiveControl ==
    ASSUME TypeInv, Receive
    PROVE  (ControlTypeOK /\ StackInv)'
<1>1. ControlTypeOK /\ Done = 15
  BY TypeOKParts, StageNames DEF TypeInv
<1>2. /\ stage' = 1 /\ job' \in Jobs
      /\ frames' = <<Call(Stages[1])>>
      /\ workdirs' \in [Jobs -> 0 .. 2]
      /\ workdirs'[job'] >= 1
  BY <1>1 DEF Receive, ControlTypeOK
<1>3. /\ Call(Stages[1]) \in Frame
      /\ Call(Stages[1]).proc = Stages[1]
  BY CallIsFrame DEF Call
<1>4. frames' \in Seq(Frame) /\ Len(frames') <= RecursionLimit /\ StackInv'
  BY <1>2, <1>3, NewStack
<1>5. need_dns_reset' \in BOOLEAN
  BY DEF Receive
<1>6. archive_on_failure' \in BOOLEAN /\ uploaded' \in BOOLEAN
  BY FreshFlags DEF Receive
<1>7. calls' \in [{"archiver", "uploader"} -> Nat]
  BY DEF Receive, NoCalls
<1> QED
  BY <1>1, <1>2, <1>4, <1>5, <1>6, <1>7 DEF ControlTypeOK

LEMMA EndControl ==
    ASSUME TypeInv, Return \/ StartOver
    PROVE  (ControlTypeOK /\ StackInv)'
<1>1. ControlTypeOK /\ StackInv /\ Done = 15 /\ frames \in Seq(Frame)
  BY TypeOKParts, StageNames DEF TypeInv, ControlTypeOK
<1>2. CASE Return
  <2>1. job' \in {n + 1 : n \in Jobs} /\ frames = <<>>
    BY <1>1, <1>2 DEF Return, StackInv
  <2>2. frames' = <<>> /\ stage' = 0
    BY <1>2, <2>1 DEF Return
  <2>3. frames' \in Seq(Frame) /\ Len(frames') <= RecursionLimit /\ StackInv'
    BY <2>2, NoStack
  <2>4. /\ UNCHANGED <<workdirs, need_dns_reset, calls>>
        /\ archive_on_failure' \in BOOLEAN /\ uploaded' \in BOOLEAN
    BY <1>2, FreshFlags DEF Return
  <2> QED BY <1>1, <2>1, <2>2, <2>3, <2>4 DEF ControlTypeOK
<1>3. CASE StartOver
  <2>1. frames' \in Seq(Frame) /\ Len(frames') <= RecursionLimit /\ StackInv'
    BY <1>3, NoStack DEF StartOver
  <2>2. stage' = 0 /\ UNCHANGED <<job, workdirs, calls>>
    BY <1>3 DEF StartOver
  <2>3. need_dns_reset' \in BOOLEAN
    BY <1>3 DEF StartOver
  <2>4. archive_on_failure' \in BOOLEAN /\ uploaded' \in BOOLEAN
    BY <1>3, FreshFlags DEF StartOver
  <2> QED BY <1>1, <2>1, <2>2, <2>3, <2>4 DEF ControlTypeOK
<1> QED BY <1>2, <1>3

LEMMA ChildEndsControl ==
    ASSUME TypeInv, At("running"), Fails \/ Returns
    PROVE  (ControlTypeOK /\ StackInv)'
<1>1. ControlTypeOK /\ StackInv /\ frames # <<>>
  BY TypeOKParts DEF TypeInv, At
<1>2. CASE Fails
  <2>1. frames' \in Seq(Frame) /\ Len(frames') = Len(frames) /\ StackInv'
    BY <1>1, <1>2, MovedStack DEF Fails
  <2>2. UNCHANGED <<job, workdirs, stage, flags, calls>>
    BY <1>2 DEF Fails
  <2>3. Len(frames') <= RecursionLimit
    BY <1>1, <2>1 DEF ControlTypeOK
  <2> QED BY <1>1, <2>1, <2>2, <2>3 DEF flags, ControlTypeOK
<1>3. CASE /\ Len(frames) > 1
           /\ frames' = Pop
           /\ UNCHANGED <<job, workdirs, stage, flags, calls>>
  <2>1. frames' \in Seq(Frame) /\ Len(frames') <= Len(frames) /\ StackInv'
    BY <1>3, PoppedStack
  <2>2. Len(frames') <= RecursionLimit
    BY <1>1, <2>1, WorkerBounds DEF ControlTypeOK
  <2> QED BY <1>1, <1>3, <2>1, <2>2 DEF flags, ControlTypeOK
<1>4. CASE Len(frames) = 1 /\ NextStage
  BY <1>4, NextStageControl
<1> QED BY <1>2, <1>3, <1>4 DEF Returns

LEMMA RestoringControl ==
    ASSUME TypeInv, RestoreDns \/ DnsRestored
    PROVE  (ControlTypeOK /\ StackInv)'
<1>1. TypeOK /\ ControlTypeOK /\ StackInv
  BY TypeOKParts DEF TypeInv
<1>2. CASE RestoreDns
  <2>1. frames # <<>> /\ Len(frames) < RecursionLimit
    BY <1>2 DEF RestoreDns, RestoresDns, At
  <2>2. /\ Aside \in Seq(Frame)
        /\ Len(Aside) = Len(frames)
        /\ \A i \in 1 .. Len(frames) - 1 : Aside[i] = frames[i]
        /\ Aside[Len(frames)] = AsideTop
        /\ frames' = Append(Aside, Call("dnsupdater --restore"))
    BY <1>1, <1>2, <2>1, PutAside, RestoreDnsPushes
  <2>3. AsideTop.proc = Top.proc /\ AsideTop.at \in Waiting
    BY <1>1, <2>1, StackTypes DEF AsideTop, Frame, Waiting
  <2>4. frames' \in Seq(Frame) /\ Len(frames') <= RecursionLimit /\ StackInv'
    BY <1>2, <2>1, <2>2, <2>3, PushedStack DEF Rescuers, RestoreDns
  <2> QED BY <1>1, <1>2, <2>4 DEF RestoreDns, ControlTypeOK
<1>3. CASE DnsRestored
  <2>1. frames # <<>> /\ Top \in Frame
    BY <1>1, <1>3, StackTypes DEF DnsRestored, At
  <2>2. frames' \in Seq(Frame) /\ Len(frames') = Len(frames) /\ StackInv'
    BY <1>3, <2>1, MovedStack DEF DnsRestored
  <2>3. archive_on_failure' \in BOOLEAN
    BY <1>3, <2>1 DEF DnsRestored, Frame
  <2>4. uploaded' \in BOOLEAN
    BY <1>3, <2>1 DEF DnsRestored, Frame
  <2> QED BY <1>1, <1>3, <2>2, <2>3, <2>4 DEF DnsRestored, ControlTypeOK
<1> QED BY <1>2, <1>3

LEMMA RescuingControl ==
    ASSUME TypeInv, Archive \/ Upload
    PROVE  (ControlTypeOK /\ StackInv)'
<1>1. TypeOK /\ ControlTypeOK /\ StackInv
  BY TypeOKParts DEF TypeInv
<1>2. ASSUME NEW place \in {"archived", "uploaded"},
             NEW p \in {"archiver", "uploader"}, frames # <<>>,
             Len(frames) < RecursionLimit, UNCHANGED <<job, workdirs, stage>>,
             frames' = Append(MovesTo(place), Call(p))
      PROVE  frames' \in Seq(Frame) /\ Len(frames') <= RecursionLimit /\ StackInv'
  <2>1. /\ MovesTo(place) \in Seq(Frame)
        /\ Len(MovesTo(place)) = Len(frames)
        /\ \A i \in 1 .. Len(frames) - 1 : MovesTo(place)[i] = frames[i]
        /\ MovesTo(place)[Len(frames)] = [Top EXCEPT !.at = place]
    BY <1>1, <1>2, Moved
  <2>2. /\ [Top EXCEPT !.at = place].proc = Top.proc
        /\ [Top EXCEPT !.at = place].at \in Waiting
    BY <1>1, <1>2, StackTypes DEF Frame, Waiting
  <2> QED BY <1>2, <2>1, <2>2, PushedStack DEF Rescuers
<1>3. CASE Archive
  <2>1. frames' \in Seq(Frame) /\ Len(frames') <= RecursionLimit /\ StackInv'
    BY <1>2, <1>3 DEF Archive, Archives, At
  <2>2. calls' \in [{"archiver", "uploader"} -> Nat]
    BY <1>1, <1>3, CountTypes DEF Archive
  <2> QED BY <1>1, <1>3, <2>1, <2>2 DEF Archive, ControlTypeOK
<1>4. CASE Upload
  <2>1. frames' \in Seq(Frame) /\ Len(frames') <= RecursionLimit /\ StackInv'
    BY <1>2, <1>4 DEF Upload, Uploads, At
  <2>2. calls' \in [{"archiver", "uploader"} -> Nat]
    BY <1>1, <1>4, CountTypes DEF Upload
  <2> QED BY <1>1, <1>4, <2>1, <2>2 DEF Upload, ControlTypeOK
<1> QED BY <1>3, <1>4

LEMMA GivingUpControl ==
    ASSUME TypeInv, Skip \/ DoError
    PROVE  (ControlTypeOK /\ StackInv)'
<1>1. TypeOK /\ ControlTypeOK /\ StackInv /\ Done = 15
  BY TypeOKParts, StageNames DEF TypeInv
<1>2. CASE Skip
  <2>1. /\ frames # <<>>
        /\ \E place \in {"restored", "archived", "uploaded"} :
                frames' = MovesTo(place)
    BY <1>2 DEF Skip, At
  <2>2. frames' \in Seq(Frame) /\ Len(frames') = Len(frames) /\ StackInv'
    BY <1>2, <2>1, MovedStack DEF Skip
  <2> QED BY <1>1, <1>2, <2>2 DEF Skip, flags, ControlTypeOK
<1>3. CASE DoError /\ Len(frames) = 1
  <2>1. /\ frames # <<>> /\ stage \in 1 .. 14
        /\ frames' = Pop /\ stage' = 15
    BY <1>1, <1>3 DEF DoError, At, StackInv
  <2>2. frames' = <<>>
    BY <1>1, <1>3, <2>1, Popped
  <2>3. job' \in Jobs /\ workdirs'[job'] >= 1
    BY <1>1, <1>3, <2>1 DEF StackInv, DoError
  <2>4. frames' \in Seq(Frame) /\ Len(frames') <= RecursionLimit /\ StackInv'
    BY <2>1, <2>2, <2>3, NoStack
  <2> QED BY <1>1, <1>3, <2>1, <2>4 DEF DoError, flags, ControlTypeOK
<1>4. CASE DoError /\ Len(frames) # 1
  <2>a. frames # <<>>
    BY <1>4 DEF DoError, At
  <2>1. Len(frames) > 1
    BY <1>1, <1>4, <2>a, StackTypes
  <2>2. frames' \in Seq(Frame) /\ Len(frames') <= Len(frames) /\ StackInv'
    BY <1>4, <2>1, PoppedStack DEF DoError
  <2>3. Len(frames') <= RecursionLimit
    BY <1>1, <2>2, WorkerBounds DEF ControlTypeOK
  <2> QED BY <1>1, <1>4, <2>2, <2>3 DEF DoError, flags, ControlTypeOK
<1> QED BY <1>2, <1>3, <1>4

LEMMA ControlStays ==
    ASSUME TypeInv, Next
    PROVE  (ControlTypeOK /\ StackInv)'
BY StepKinds, ReceiveControl, EndControl, ChildEndsControl, RestoringControl,
   RescuingControl, GivingUpControl

(* What a step does outside srworker.                                        *)
LEMMA WorldSteps ==
    ASSUME Next
    PROVE  \/ UNCHANGED world
           \/ StartCapture \/ SetDns \/ ResetDns \/ RunTests \/ SaveCapture
           \/ SendResults
           \/ CaptureNotStarted \/ CaptureNotRetrieved
<1>1. ASSUME Works
      PROVE  \/ UNCHANGED world
             \/ StartCapture \/ SetDns \/ ResetDns \/ RunTests \/ SaveCapture
             \/ SendResults
  BY <1>1 DEF Works, Receive, ChildSucceeds, Effect, DoesNothing, CheckPasses,
     CheckFails, Return, RestoreDns, DnsRestored, Archive, Upload, Skip,
     DoError, TooDeep, StartOver
<1>2. ASSUME Suffers
      PROVE  \/ UNCHANGED world
             \/ StartCapture \/ SetDns \/ ResetDns \/ RunTests \/ SendResults
             \/ CaptureNotStarted \/ CaptureNotRetrieved
  BY <1>2 DEF Suffers, ChildFails, ChildFailsLate, ChildIsRefused, Dies,
     StartOver
<1> QED BY <1>1, <1>2 DEF Next

(* Only a job that is being handled touches the world.                       *)
LEMMA RunningInJob ==
    ASSUME TypeInv, NEW p, Running(p)
    PROVE  /\ stage \in 1 .. 14 /\ stage # 0
           /\ job \in Jobs
           /\ MyNetconfig \in NETCONFIGS
           /\ MyNetconfig = Netconfig[job]
<1>1. frames # <<>>
  BY DEF Running
<1>2. stage \in 1 .. 14
  BY <1>1 DEF TypeInv, StackInv
<1>3. job \in Jobs
  BY <1>2 DEF TypeInv, StackInv
<1> QED BY <1>2, <1>3, JobsAssumption DEF MyNetconfig

LEMMA WorldTypes ==
    ASSUME TypeInv, Next
    PROVE  WorldTypeOK'
<1>1. WorldTypeOK
  BY TypeOKParts DEF TypeInv
<1> USE <1>1
<1>2. CASE UNCHANGED world
  BY <1>2 DEF world, WorldTypeOK, PcapperTypeOK
<1>3. ASSUME NEW nc \in NETCONFIGS
      PROVE  /\ Start(nc) => PcapperTypeOK'
             /\ StartFails(nc) => PcapperTypeOK'
             /\ Stop(nc) => PcapperTypeOK'
             /\ Retrieve(nc) => PcapperTypeOK'
             /\ \A j \in Jobs : Sniff(nc, j) => PcapperTypeOK'
  BY <1>3 DEF WorldTypeOK, PcapperTypeOK, Capture, NoCapture, Start, StartFails,
     Stop, Retrieve, Sniff
<1>4. CASE StartCapture \/ CaptureNotStarted
  BY <1>3, <1>4, RunningInJob DEF StartCapture, CaptureNotStarted, WorldTypeOK
<1>5. CASE SetDns
  BY <1>5, RunningInJob DEF SetDns, WorldTypeOK, PcapperTypeOK
<1>6. CASE ResetDns
  BY <1>6 DEF ResetDns, WorldTypeOK, PcapperTypeOK
<1>7. CASE RunTests
  <2>1. job \in Jobs
    BY <1>7, RunningInJob DEF RunTests
  <2>2. ran' \in [Jobs -> SUBSET (NETCONFIGS \union {"public"})]
    BY <1>7, <2>1 DEF RunTests, WorldTypeOK
  <2>3. PcapperTypeOK'
    BY <1>3, <1>7, <2>1 DEF RunTests, WorldTypeOK, PcapperTypeOK
  <2> QED BY <1>7, <2>2, <2>3 DEF RunTests, WorldTypeOK
<1>8. CASE SaveCapture
  <2>1. job \in Jobs /\ MyNetconfig \in NETCONFIGS
    BY <1>8, RunningInJob DEF SaveCapture
  <2>2. PcapperTypeOK'
    BY <1>3, <1>8, <2>1 DEF SaveCapture, WorldTypeOK, PcapperTypeOK
  <2>3. pcaps[MyNetconfig].traffic \in SUBSET Jobs
    BY <2>1 DEF WorldTypeOK, PcapperTypeOK, Capture
  <2>4. saved' \in [Jobs -> SUBSET Jobs]
    BY <1>8, <2>1, <2>3 DEF SaveCapture, WorldTypeOK
  <2> QED BY <1>8, <2>2, <2>4 DEF SaveCapture, WorldTypeOK
<1>9. CASE SendResults
  <2>1. job \in Jobs
    BY <1>9, RunningInJob DEF SendResults
  <2> QED BY <1>9, <2>1 DEF SendResults, WorldTypeOK, PcapperTypeOK
<1>10. CASE CaptureNotRetrieved
  BY <1>3, <1>10, RunningInJob DEF CaptureNotRetrieved, WorldTypeOK
<1> QED
  BY <1>2, <1>4, <1>5, <1>6, <1>7, <1>8, <1>9, <1>10, WorldSteps

(* Faults are counted up to their bounds.                                    *)
LEMMA FaultCounted ==
    ASSUME FaultsTypeOK, NEW kind \in Kinds, Fault(kind)
    PROVE  FaultsTypeOK'
<1>1. /\ faults \in [Kinds -> Nat] /\ MaxFaults \in [Kinds -> Nat]
      /\ faults' = [faults EXCEPT ![kind] = faults[kind] + 1]
      /\ faults[kind] < MaxFaults[kind]
  BY WorkerBounds DEF FaultsTypeOK, Fault
<1>2. faults' \in [Kinds -> Nat]
  BY <1>1
<1>3. \A k \in Kinds : faults'[k] <= MaxFaults[k]
  <2> TAKE k \in Kinds
  <2>1. faults[k] \in Nat /\ MaxFaults[k] \in Nat /\ faults[k] <= MaxFaults[k]
    BY <1>1 DEF FaultsTypeOK
  <2>2. CASE k = kind
    BY <1>1, <2>1, <2>2
  <2>3. CASE k # kind
    BY <1>1, <2>1, <2>3
  <2> QED BY <2>2, <2>3
<1> QED BY <1>2, <1>3 DEF FaultsTypeOK

LEMMA FaultsTypes ==
    ASSUME TypeInv, Next
    PROVE  FaultsTypeOK'
<1>1. FaultsTypeOK
  BY TypeOKParts DEF TypeInv
<1>2. \/ UNCHANGED faults
      \/ \E kind \in Kinds : Fault(kind)
  BY DEF Kinds, Next, Works, Suffers, Receive, ChildSucceeds, CheckFails,
     Return, RestoreDns, DnsRestored, Archive, Upload, Skip, DoError, TooDeep,
     ChildFails, ChildFailsLate, ChildIsRefused, CaptureNotStarted,
     CaptureNotRetrieved, Dies
<1>3. CASE UNCHANGED faults
  BY <1>1, <1>3 DEF FaultsTypeOK
<1> QED BY <1>1, <1>2, <1>3, FaultCounted

LEMMA InitTypeInv == Init => TypeInv
<1> SUFFICES ASSUME Init PROVE TypeInv
  OBVIOUS
<1>1. frames = <<>> /\ frames \in Seq(Frame) /\ Len(frames) = 0 /\ Done = 15
  BY EmptySeq, StageNames DEF Init
<1>2. WorldTypeOK
  BY DEF Init, WorldTypeOK, PcapperTypeOK, PcapperInit, NoCapture, Capture
<1>3. FaultsTypeOK
  BY WorkerBounds DEF Init, FaultsTypeOK
<1>4. need_dns_reset \in BOOLEAN
  BY DEF Init
<1>5. archive_on_failure \in BOOLEAN
  BY DEF Init
<1>6. uploaded \in BOOLEAN
  BY DEF Init
<1>7. ControlTypeOK
  BY <1>1, <1>4, <1>5, <1>6, WorkerBounds DEF Init, ControlTypeOK, NoCalls
<1>8. StackInv
  BY <1>1 DEF Init, StackInv
<1> QED BY <1>2, <1>3, <1>7, <1>8, TypeOKParts DEF TypeInv

LEMMA NextTypeInv == TypeInv /\ [Next]_vars => TypeInv'
<1> SUFFICES ASSUME TypeInv, [Next]_vars PROVE TypeInv'
  OBVIOUS
<1>1. CASE Next
  BY <1>1, ControlStays, WorldTypes, FaultsTypes
     DEF TypeInv, TypeOK, ControlTypeOK, WorldTypeOK, FaultsTypeOK
<1>2. CASE UNCHANGED vars
  BY <1>2 DEF vars, flags, world, TypeInv, TypeOK, PcapperTypeOK, StackInv
<1> QED BY <1>1, <1>2

LEMMA TypeInvHolds == Spec => []TypeInv
BY InitTypeInv, NextTypeInv, PTL DEF Spec

(* Every variable keeps its type; run_process() is never deeper in its own   *)
(* calls than Python lets it be.                                             *)
THEOREM TypeCorrect == Spec => []TypeOK
<1>1. TypeInv => TypeOK
  BY DEF TypeInv
<1> QED BY <1>1, TypeInvHolds, PTL
-----------------------------------------------------------------------------
(* Where a child runs.                                                       *)
LEMMA InStageAlone ==
    ASSUME TypeInv, InStage
    PROVE  /\ Len(frames) = 1 /\ Top = frames[1] /\ At("running")
           /\ Top.proc = Stages[stage] /\ stage \in 1 .. 14
<1>1. frames # <<>> /\ frames[1].at = "running"
  BY DEF InStage
<1>2. Len(frames) \in Nat \ {0}
  BY <1>1, StackTypes DEF TypeInv
<1>3. Len(frames) = 1
  <2> SUFFICES ASSUME Len(frames) # 1 PROVE FALSE
    OBVIOUS
  <2>1. 1 \in 1 .. Len(frames) - 1
    BY <1>2, Sizes
  <2> QED BY <1>1, <2>1 DEF TypeInv, StackInv, Waiting
<1>4. stage \in 1 .. 14 /\ frames[1].proc = Stages[stage]
  BY <1>1 DEF TypeInv, StackInv
<1> QED BY <1>1, <1>3, <1>4 DEF Top, At

LEMMA RunsInStage ==
    ASSUME TypeInv, At("running"), Len(frames) = 1 \/ Top.proc \notin Rescuers
    PROVE  /\ InStage /\ Len(frames) = 1
           /\ Top.proc = Stages[stage] /\ stage \in 1 .. 14
<1>1. frames # <<>> /\ Top.at = "running"
  BY DEF At
<1>2. Len(frames) \in Nat \ {0}
  BY <1>1, StackTypes DEF TypeInv
<1>3. Len(frames) = 1
  <2> SUFFICES ASSUME Len(frames) # 1 PROVE FALSE
    OBVIOUS
  <2>1. Len(frames) \in 2 .. Len(frames)
    BY <1>2
  <2> QED BY <2>1 DEF TypeInv, StackInv, Top
<1>4. stage \in 1 .. 14 /\ frames[1].proc = Stages[stage]
  BY <1>1 DEF TypeInv, StackInv
<1> QED BY <1>1, <1>3, <1>4 DEF Top, InStage

(* No step but the next stage of the test starts the child of a stage.       *)
LEMMA LeavesStage ==
    ASSUME TypeInv,
           \/ Return \/ StartOver
           \/ At("running") /\ Fails
           \/ Len(frames) > 1 /\ frames' = Pop
           \/ RestoreDns \/ DnsRestored \/ Archive \/ Upload \/ Skip \/ DoError
    PROVE  ~InStage'
<1>0. TypeOK /\ StackInv
  BY DEF TypeInv
<1>1. CASE Return \/ StartOver
  <2>a. Done = 15
    BY StageNames
  <2>1. Return => frames = <<>> /\ frames' = <<>>
    BY <1>0, <2>a DEF Return, StackInv
  <2> QED BY <1>1, <2>1 DEF StartOver, InStage
<1>2. ASSUME frames # <<>>, Len(frames) > 1, frames' = Pop
      PROVE  ~InStage'
  <2>1. Len(frames) \in Nat /\ 1 \in 1 .. Len(frames) - 1
    BY <1>0, <1>2, StackTypes
  <2>2. frames'[1] = frames[1]
    BY <1>0, <1>2, <2>1, Popped
  <2> QED BY <1>0, <2>1, <2>2 DEF StackInv, Waiting, InStage
<1>3. ASSUME frames # <<>>, NEW s \in Seq(Frame), Len(s) = Len(frames),
             \A i \in 1 .. Len(frames) - 1 : s[i] = frames[i],
             s[Len(frames)].at # "running"
      PROVE  s[1].at # "running"
  <2>1. Len(frames) \in Nat \ {0}
    BY <1>0, <1>3, StackTypes
  <2>2. CASE Len(frames) = 1
    BY <1>3, <2>2
  <2>3. CASE Len(frames) # 1
    <3>1. 1 \in 1 .. Len(frames) - 1
      BY <2>1, <2>3, Sizes
    <3> QED BY <1>0, <1>3, <3>1 DEF StackInv, Waiting
  <2> QED BY <2>2, <2>3
<1>4. ASSUME frames # <<>>,
             NEW place \in {"failed", "restored", "archived", "uploaded"}
      PROVE  MovesTo(place)[1].at # "running"
  <2>1. /\ MovesTo(place) \in Seq(Frame)
        /\ Len(MovesTo(place)) = Len(frames)
        /\ \A i \in 1 .. Len(frames) - 1 : MovesTo(place)[i] = frames[i]
        /\ MovesTo(place)[Len(frames)] = [Top EXCEPT !.at = place]
    BY <1>0, <1>4, Moved
  <2>2. MovesTo(place)[Len(frames)].at # "running"
    BY <1>0, <1>4, <2>1, StackTypes DEF Frame
  <2> QED BY <1>3, <1>4, <2>1, <2>2
<1>5. CASE At("running") /\ Fails
  BY <1>4, <1>5 DEF At, Fails, InStage
<1>6. CASE DnsRestored \/ Skip
  BY <1>4, <1>6 DEF At, DnsRestored, Skip, InStage
<1>7. CASE RestoreDns
  <2>1. frames # <<>> /\ frames' = Append(Aside, Call("dnsupdater --restore"))
    BY <1>0, <1>7, RestoreDnsPushes DEF RestoreDns, RestoresDns, At
  <2>2. /\ Aside \in Seq(Frame) /\ Aside # <<>>
        /\ Len(Aside) = Len(frames)
        /\ \A i \in 1 .. Len(frames) - 1 : Aside[i] = frames[i]
        /\ Aside[Len(frames)] = AsideTop
    BY <1>0, <2>1, PutAside
  <2>3. AsideTop.at # "running"
    BY <1>0, <2>1, StackTypes DEF AsideTop, Frame
  <2>4. Aside[1].at # "running"
    BY <1>3, <2>1, <2>2, <2>3
  <2>5. 1 \in 1 .. Len(Aside)
    <3>1. Len(Aside) \in Nat \ {0}
      BY <2>2, EmptySeq
    <3> QED BY <3>1
  <2>6. frames'[1] = Aside[1]
    BY <2>1, <2>2, <2>5, Pushed, CallIsFrame DEF Rescuers
  <2> QED BY <2>4, <2>6 DEF InStage
<1>8. CASE Archive \/ Upload
  <2> PICK place \in {"archived", "uploaded"}, p \in Rescuers :
            frames # <<>> /\ frames' = Append(MovesTo(place), Call(p))
    BY <1>8 DEF Archive, Upload, Archives, Uploads, At, Rescuers
  <2>1. /\ MovesTo(place) \in Seq(Frame)
        /\ Len(MovesTo(place)) = Len(frames)
        /\ Len(frames) \in Nat \ {0}
    BY <1>0, Moved, StackTypes
  <2>2. MovesTo(place) # <<>> /\ 1 \in 1 .. Len(MovesTo(place))
    BY <2>1, EmptySeq
  <2>3. frames'[1] = MovesTo(place)[1]
    BY <2>1, <2>2, Pushed, CallIsFrame
  <2> QED BY <1>4, <2>3 DEF InStage
<1>9. CASE DoError
  <2>1. frames # <<>> /\ frames' = Pop
    BY <1>9 DEF DoError, At
  <2>2. Len(frames) > 1 \/ frames' = <<>>
    BY <1>0, <2>1, Popped
  <2> QED BY <1>2, <2>1, <2>2 DEF InStage
<1>10. Len(frames) > 1 => frames # <<>>
  BY <1>0, StackTypes
<1> QED
  BY <1>1, <1>2, <1>5, <1>6, <1>7, <1>8, <1>9, <1>10
-----------------------------------------------------------------------------
(* What becomes of the DNS.                                                  *)
LEMMA FaultSeen ==
    ASSUME FaultsTypeOK, NEW kind \in Kinds, Fault(kind)
    PROVE  /\ faults'[kind] # 0
           /\ \A k \in Kinds : faults'[k] = 0 => faults[k] = 0
<1>1. /\ faults \in [Kinds -> Nat]
      /\ faults' = [faults EXCEPT ![kind] = faults[kind] + 1]
  BY DEF FaultsTypeOK, Fault
<1>2. faults[kind] \in Nat /\ faults'[kind] = faults[kind] + 1
  BY <1>1
<1>3. \A k \in Kinds : faults'[k] = 0 => faults[k] = 0
  <2> TAKE k \in Kinds
  <2>1. CASE k = kind
    BY <1>2, <2>1
  <2>2. CASE k # kind
    BY <1>1, <2>2
  <2> QED BY <2>1, <2>2
<1> QED BY <1>2, <1>3

LEMMA FaultsGrow ==
    ASSUME TypeInv, Next
    PROVE  \A k \in Kinds : faults'[k] = 0 => faults[k] = 0
<1>1. \/ UNCHANGED faults
      \/ \E kind \in Kinds : Fault(kind)
  BY DEF Kinds, Next, Works, Suffers, Receive, ChildSucceeds, CheckFails,
     Return, RestoreDns, DnsRestored, Archive, Upload, Skip, DoError, TooDeep,
     ChildFails, ChildFailsLate, ChildIsRefused, CaptureNotStarted,
     CaptureNotRetrieved, Dies
<1>2. FaultsTypeOK
  BY TypeOKParts DEF TypeInv
<1> QED BY <1>1, <1>2, FaultSeen

(* A step while some child runs is the end of that child, or of srworker.    *)
LEMMA ChildSteps ==
    ASSUME TypeInv, Next, At("running")
    PROVE  \/ ChildSucceeds \/ CheckFails
           \/ ChildFails \/ ChildFailsLate \/ ChildIsRefused
           \/ CaptureNotStarted \/ CaptureNotRetrieved \/ Dies
<1>1. frames # <<>> /\ Top.at = "running"
  BY DEF At
<1>2. stage \in 1 .. 14 /\ Done = 15
  BY <1>1, StageNames DEF TypeInv, StackInv
<1> QED
  BY <1>1, <1>2 DEF Next, Works, Suffers, Receive, Return, RestoreDns,
     RestoresDns, DnsRestored, Archive, Archives, Upload, Uploads, Skip,
     DoError, TooDeep, At

LEMMA OnlyUpdatesMoveDns ==
    ASSUME TypeInv, Next, ~Running("dnsupdater"),
           ~Running("dnsupdater --restore")
    PROVE  UNCHANGED dns
BY WorldSteps DEF world, StartCapture, SetDns, ResetDns, RunTests, SaveCapture,
   SendResults, CaptureNotStarted, CaptureNotRetrieved

(* srdnsupdater that works.                                                  *)
LEMMA UpdatesWork ==
    ASSUME TypeInv, Next, Updating, faults'["updates"] = 0
    PROVE  \/ StartOver /\ UNCHANGED dns /\ faults'["deaths"] # 0
           \/ /\ Returns
              /\ Running("dnsupdater") => dns' = MyNetconfig
              /\ Running("dnsupdater --restore") => dns' = "public"
<1> USE DEF Running
<1>0. FaultsTypeOK /\ {"updates", "deaths"} \subseteq Kinds
  BY TypeOKParts DEF TypeInv, Kinds
<1>1. /\ frames # <<>> /\ Top.at = "running"
      /\ Top.proc \in {"dnsupdater", "dnsupdater --restore"}
  BY DEF Updating
<1>2. At("running")
  BY <1>1 DEF At
<1>3. ~Fault("updates")
  BY <1>0, FaultSeen
<1>4. CASE ChildSucceeds
  BY <1>1, <1>4 DEF ChildSucceeds, Effect, CheckPasses, StartCapture, SetDns,
     ResetDns, RunTests, SaveCapture, SendResults, DoesNothing, Quiet
<1>5. CASE Dies
  BY <1>0, <1>5, FaultSeen DEF Dies, StartOver, world
<1>6. ~CheckFails
  BY <1>1 DEF CheckFails
<1>7. ~ChildFails /\ ~ChildFailsLate
  BY <1>3 DEF ChildFails, ChildFailsLate
<1>8. ~ChildIsRefused /\ ~CaptureNotStarted /\ ~CaptureNotRetrieved
  BY <1>1, <1>3 DEF ChildIsRefused, Capturing, CaptureNotStarted,
     CaptureNotRetrieved
<1> QED
  BY <1>2, <1>4, <1>5, <1>6, <1>7, <1>8, ChildSteps

(* srdnscheck that passes.                                                   *)
LEMMA ChecksWork ==
    ASSUME TypeInv, Next, Running("dnscheck")
    PROVE  StartOver \/ Fails \/ dns # "public"
<1> USE DEF Running
<1>1. frames # <<>> /\ Top.at = "running" /\ Top.proc = "dnscheck"
  OBVIOUS
<1>2. At("running")
  BY <1>1 DEF At
<1>3. ChildSucceeds => dns # "public"
  BY <1>1 DEF ChildSucceeds, Effect, CheckPasses, StartCapture, SetDns,
     ResetDns, RunTests, SaveCapture, SendResults, DoesNothing, Quiet
<1>4. CheckFails \/ ChildFails \/ ChildFailsLate => Fails
  BY DEF CheckFails, ChildFails, ChildFailsLate
<1>5. ~ChildIsRefused /\ ~CaptureNotStarted /\ ~CaptureNotRetrieved
  BY <1>1 DEF ChildIsRefused, Updating, Capturing, CaptureNotStarted,
     CaptureNotRetrieved
<1>6. Dies => StartOver
  BY DEF Dies
<1> QED
  BY <1>2, <1>3, <1>4, <1>5, <1>6, ChildSteps

LEMMA DnsInvInStage ==
    ASSUME TypeInv, DnsInv, Next, At("running"), Len(frames) = 1, NextStage
    PROVE  DnsInv'
<1>1. /\ InStage /\ Top.proc = Stages[stage] /\ stage \in 1 .. 14
      /\ \A p : Running(p) <=> p = Stages[stage]
  BY RunsInStage DEF Running, At
<1>2. stage' = stage + 1 /\ job' = job /\ need_dns_reset' = ResetNeeded
  BY DEF NextStage
<1>3. /\ Stages[stage] = "dnsupdater" <=> stage = 5
      /\ Stages[stage] = "dnscheck" <=> stage = 6
      /\ Stages[stage] = "runner" <=> stage = 8
      /\ Stages[stage] = "dnsupdater --restore" <=> stage = 9
  BY <1>1, StageNames
<1>4. ~StartOver /\ ~Fails
  BY <1>1, <1>2 DEF StartOver, Fails
<1>5. /\ faults'["updates"] = 0 => faults["updates"] = 0
      /\ faults'["deaths"] = 0 => faults["deaths"] = 0
  BY FaultsGrow DEF Kinds
<1>6. stage \notin {5, 9} => UNCHANGED dns
  BY <1>1, <1>3, OnlyUpdatesMoveDns
<1>7. ResetRemembered'
  <2>1. CASE stage = 5
    BY <1>1, <1>2, <1>3, <2>1 DEF ResetRemembered, ResetNeeded
  <2>2. CASE stage \in 6 .. 7
    <3>1. need_dns_reset
      BY <2>2 DEF DnsInv, ResetRemembered
    <3>2. ResetNeeded = need_dns_reset
      <4>a. stage # 5 /\ stage # 8
        BY <2>2
      <4>b. Stages[stage] # "dnsupdater" /\ Stages[stage] # "runner"
        BY <1>3, <4>a
      <4>1. Top.proc # "dnsupdater" /\ Top.proc # "runner"
        BY <1>1, <4>b
      <4> QED BY <4>1 DEF ResetNeeded
    <3> QED BY <1>2, <3>1, <3>2 DEF ResetRemembered
  <2>3. CASE stage \notin 5 .. 7
    BY <1>1, <1>2, <2>3 DEF ResetRemembered
  <2> QED BY <1>1, <2>1, <2>2, <2>3
<1>8. DnsChecked'
  <2>1. CASE stage = 6
    <3>1. Running("dnscheck")
      BY <1>1, <1>3, <2>1
    <3>2. dns # "public"
      BY <1>4, <3>1, ChecksWork
    <3> QED BY <1>6, <2>1, <3>2 DEF DnsChecked
  <2>2. CASE stage = 7
    BY <1>1, <1>6, <2>2 DEF DnsInv, DnsChecked
  <2>3. CASE stage \notin {6, 7}
    BY <1>1, <1>2, <2>3 DEF DnsChecked
  <2> QED BY <2>1, <2>2, <2>3
<1>9. DnsUpdated'
  <2> SUFFICES ASSUME faults'["updates"] = 0, stage' \in 6 .. 8
               PROVE  dns' = Netconfig[job]'
    BY DEF DnsUpdated
  <2>1. CASE stage = 5
    <3>1. Running("dnsupdater") /\ Updating
      BY <1>1, <1>3, <2>1 DEF Updating
    <3>2. dns' = MyNetconfig
      BY <1>4, <3>1, UpdatesWork
    <3> QED BY <1>2, <3>2 DEF MyNetconfig
  <2>2. CASE stage \in 6 .. 7
    BY <1>1, <1>2, <1>5, <1>6, <2>2 DEF DnsInv, DnsUpdated
  <2> QED BY <1>1, <1>2, <2>1, <2>2
<1>10. DnsAstray'
  <2> SUFFICES ASSUME faults'["updates"] = 0, faults'["deaths"] = 0,
                      dns' # "public"
               PROVE  Restoration'
    BY DEF DnsAstray
  <2>1. stage \in 5 .. 8
    <3>1. CASE stage = 9
      <4>1. Running("dnsupdater --restore") /\ Updating
        BY <1>1, <1>3, <3>1 DEF Updating
      <4> QED BY <1>4, <4>1, UpdatesWork
    <3>2. CASE stage \notin {5, 9}
      <4>1. Restoration
        BY <1>5, <1>6, <3>2 DEF DnsInv, DnsAstray
      <4>2. Top.at = "running" /\ stage \in 6 .. 9
        BY <1>1, <4>1, InStageAlone DEF Restoration, At
      <4> QED BY <3>2, <4>2
    <3> QED BY <1>1, <3>1, <3>2
  <2>a. Done = 15
    BY StageNames
  <2>b. stage' \in 6 .. 9 /\ stage' # Done
    BY <1>2, <2>1, <2>a
  <2>2. frames' = <<Call(Stages[stage'])>>
    BY <2>b DEF NextStage
  <2>3. InStage'
    BY <2>2 DEF InStage, Call
  <2> QED BY <2>b, <2>3 DEF Restoration
<1> QED BY <1>7, <1>8, <1>9, <1>10 DEF DnsInv

(* handle() is cut short only by a death or by Python.                       *)
LEMMA CutShort ==
    ASSUME TypeInv, Next, stage \in 1 .. 14, stage' = 0
    PROVE  /\ Dies \/ TooDeep
           /\ Dies => faults'["deaths"] # 0
<1>a. Done = 15
  BY StageNames
<1>1. Done = 15 /\ stage # 0 /\ stage # 15 /\ stage + 1 # 0 /\ stage # stage'
  BY <1>a
<1>2. ~Fails
  BY <1>1 DEF Fails
<1>3. ~Returns
  BY <1>1 DEF Returns, NextStage
<1>4. Works => TooDeep
  <2>1. ~Receive /\ ~Return
    BY <1>1 DEF Receive, Return
  <2>2. ~ChildSucceeds /\ ~CheckFails
    BY <1>2, <1>3 DEF ChildSucceeds, CheckFails
  <2>3. ~RestoreDns /\ ~DnsRestored
    BY <1>1 DEF RestoreDns, DnsRestored
  <2>4. ~Archive /\ ~Upload
    BY <1>1 DEF Archive, Upload
  <2>5. ~Skip /\ ~DoError
    BY <1>1 DEF Skip, DoError
  <2> QED BY <2>1, <2>2, <2>3, <2>4, <2>5 DEF Works
<1>5. Suffers => Dies
  BY <1>2, <1>3 DEF Suffers, ChildFails, ChildFailsLate, ChildIsRefused,
     CaptureNotStarted, CaptureNotRetrieved
<1>6. Dies => faults'["deaths"] # 0
  BY FaultSeen, TypeOKParts DEF Dies, TypeInv, Kinds
<1> QED BY <1>4, <1>5, <1>6 DEF Next

LEMMA DnsInvOffStage ==
    ASSUME TypeInv, DnsInv, Next,
           \/ Receive \/ Return \/ StartOver
           \/ At("running") /\ Fails
           \/ At("running") /\ Len(frames) > 1 /\ Returns
           \/ RestoreDns \/ DnsRestored \/ Archive \/ Upload \/ Skip \/ DoError
    PROVE  DnsInv'
<1>1. /\ frames \in Seq(Frame) /\ Len(frames) \in Nat
      /\ frames # <<>> <=> Len(frames) > 0
      /\ frames # <<>> <=> stage \in 1 .. 14
  BY StackTypes DEF TypeInv, StackInv
<1>2. /\ faults'["updates"] = 0 => faults["updates"] = 0
      /\ faults'["deaths"] = 0 => faults["deaths"] = 0
  BY FaultsGrow DEF Kinds
<1>3. Len(frames) > 1 /\ Returns =>
            frames' = Pop /\ UNCHANGED <<job, workdirs, stage, flags, calls>>
  <2>1. Len(frames) > 1 => Len(frames) # 1
    BY <1>1, MoreThanOne
  <2> QED BY <2>1 DEF Returns
<1>4. ~InStage' \/ stage' = 1
  BY <1>3, LeavesStage DEF Receive
<1>5. Done = 15
  BY StageNames
<1>6. \/ stage' = stage /\ need_dns_reset' = need_dns_reset
      \/ stage' \in {0, 1, 15}
  BY <1>3, <1>5 DEF Receive, Return, StartOver, Fails, flags, RestoreDns,
     DnsRestored, Archive, Upload, Skip, DoError
<1>7. ResetRemembered' /\ DnsChecked' /\ DnsUpdated'
  <2>1. ResetRemembered'
    BY <1>6 DEF DnsInv, ResetRemembered
  <2>2. DnsChecked'
    BY <1>4 DEF DnsChecked
  <2>3. DnsUpdated'
    BY <1>4 DEF DnsUpdated
  <2> QED BY <2>1, <2>2, <2>3
<1>8. DnsAstray'
  <2> SUFFICES ASSUME faults'["updates"] = 0, faults'["deaths"] = 0,
                      dns' # "public"
               PROVE  Restoration'
    BY DEF DnsAstray
  <2>1. UNCHANGED dns
    <3>1. CASE Running("dnsupdater --restore")
      BY <3>1, UpdatesWork DEF Updating
    <3>2. CASE Running("dnsupdater") /\ ~Running("dnsupdater --restore")
      <4>1. At("running") /\ frames # <<>>
        BY <3>2 DEF Running, At
      <4>2. Len(frames) = 1
        BY <3>2, <4>1, RunsInStage DEF Running, Rescuers
      <4>3. stage \in 1 .. 14 /\ ~(Len(frames) > 1)
        BY <1>1, <4>1, <4>2
      <4>4. StartOver \/ Fails
        BY <1>5, <4>1, <4>3 DEF Receive, Return, RestoreDns, RestoresDns,
           DnsRestored, Archive, Archives, Upload, Uploads, Skip, DoError, At
      <4>5. Returns => stage' = stage + 1
        BY <1>1, <4>2, <4>3 DEF Returns, NextStage
      <4>6. ~Returns
        BY <4>3, <4>4, <4>5 DEF StartOver, Fails
      <4> QED BY <3>2, <4>6, UpdatesWork DEF Updating
    <3> QED BY <3>1, <3>2, OnlyUpdatesMoveDns
  <2>2. Restoration /\ stage \in 1 .. 14 /\ frames # <<>>
    <3>1. Restoration
      BY <1>2, <2>1 DEF DnsInv, DnsAstray
    <3>a. stage \in 6 .. 8 \/ stage \in 6 .. 9
      BY <3>1 DEF Restoration
    <3>2. stage \in 1 .. 14
      BY <3>a
    <3> QED BY <1>1, <3>1, <3>2
  <2>a. At("running") => StartOver \/ Fails \/ (Len(frames) > 1 /\ Returns)
    <3>1. stage # 0 /\ stage # 15
      BY <2>2
    <3> QED BY <1>5, <3>1 DEF Receive, Return, RestoreDns, RestoresDns,
           DnsRestored, Archive, Archives, Upload, Uploads, Skip, DoError, At
  <2>b. StartOver => TooDeep
    BY <2>2, CutShort DEF StartOver
  <2>3. CASE InStage /\ stage \in 6 .. 9
    <3>a. /\ Len(frames) = 1 /\ At("running")
          /\ Top.proc = Stages[stage]
      BY <2>3, InStageAlone
    <3>1. /\ Len(frames) = 1 /\ At("running") /\ ~(Len(frames) > 1)
          /\ Top.proc = Stages[stage]
      BY <3>a
    <3>2. ~TooDeep
      BY <3>1 DEF TooDeep, RestoresDns, Archives, Uploads, At
    <3>3. Fails
      BY <2>a, <2>b, <3>1, <3>2
    <3>4. stage # 9
      <4> SUFFICES ASSUME stage = 9 PROVE FALSE
        OBVIOUS
      <4>1. Updating
        BY <2>2, <3>1, StageNames DEF Updating, Running, At
      <4>2. Returns
        BY <4>1, <3>2, <2>b, UpdatesWork
      <4> QED BY <3>1, <3>3, <4>2 DEF Returns, NextStage, Fails
    <3>5. /\ Len(MovesTo("failed")) = 1
          /\ MovesTo("failed")[1] = [Top EXCEPT !.at = "failed"]
          /\ Top \in Frame
          /\ MovesTo("failed") \in Seq(Frame)
      BY <2>2, <3>1, Moved, StackTypes DEF TypeInv
    <3>6. MovesTo("failed") # <<>> /\ MovesTo("failed")[1].at = "failed"
      BY <3>5, EmptySeq DEF Frame
    <3>7. (Len(frames) = 1 /\ At("failed") /\ stage \in 6 .. 8)'
      BY <2>3, <3>3, <3>4, <3>5, <3>6 DEF Fails, At, Top
    <3> QED BY <3>7 DEF Restoration
  <2>4. CASE Len(frames) = 1 /\ At("failed") /\ stage \in 6 .. 8
    <3>1. need_dns_reset /\ RestoresDns /\ ~(Len(frames) > 1)
      BY <2>4 DEF DnsInv, ResetRemembered, RestoresDns
    <3>2. ~TooDeep
      BY <2>4, WorkerBounds DEF TooDeep
    <3>3. RestoreDns
      <4>1. stage # 0 /\ stage # 15
        BY <2>2
      <4> QED BY <1>5, <2>4, <2>b, <3>1, <3>2, <4>1 DEF Receive, Return,
             DnsRestored, Archive, Archives, Upload, Uploads, Skip, DoError, At
    <3>4. frames' = Append(Aside, Call("dnsupdater --restore"))
      BY <3>3, RestoreDnsPushes DEF TypeInv
    <3>5. /\ Aside \in Seq(Frame) /\ Aside # <<>> /\ Len(Aside) = 1
          /\ Call("dnsupdater --restore") \in Frame
      BY <2>2, <2>4, PutAside, CallIsFrame DEF TypeInv, Rescuers
    <3>6. /\ frames' # <<>>
          /\ Len(frames') = 2
          /\ frames'[2] = Call("dnsupdater --restore")
      <4>1. /\ frames' # <<>>
            /\ Len(frames') = Len(Aside) + 1
            /\ frames'[Len(Aside) + 1] = Call("dnsupdater --restore")
        BY <3>4, <3>5, Pushed
      <4>2. \A n : n = 1 => n + 1 = 2
        OBVIOUS
      <4>3. Len(Aside) + 1 = 2
        BY <3>5, <4>2, Zenon
      <4> QED BY <4>1, <4>3, Zenon
    <3>a. Top' = Call("dnsupdater --restore")
      BY <3>6 DEF Top
    <3>7. Running("dnsupdater --restore")'
      BY <3>6, <3>a DEF Running, Call
    <3>8. stage' = stage
      BY <3>3 DEF RestoreDns
    <3> QED BY <2>4, <3>6, <3>7, <3>8 DEF Restoration
  <2>5. CASE /\ Len(frames) = 2 /\ Running("dnsupdater --restore")
             /\ stage \in 6 .. 8
    <3>1. Updating
      BY <2>5 DEF Updating
    <3>2. dns' = "public"
      BY <2>5, <3>1, UpdatesWork
    <3> QED BY <3>2
  <2> QED BY <2>2, <2>3, <2>4, <2>5 DEF Restoration
<1> QED BY <1>7, <1>8 DEF DnsInv

LEMMA DnsInvHolds == Spec => []DnsInv
<1>1. Init => DnsInv
  BY DEF Init, DnsInv, ResetRemembered, DnsChecked, DnsUpdated, DnsAstray
<1>2. TypeInv /\ DnsInv /\ [Next]_vars => DnsInv'
  <2> SUFFICES ASSUME TypeInv, DnsInv, [Next]_vars PROVE DnsInv'
    OBVIOUS
  <2>1. CASE Next
    <3>1. At("running") /\ Returns =>
                \/ At("running") /\ Len(frames) > 1 /\ Returns
                \/ At("running") /\ Len(frames) = 1 /\ NextStage
      BY DEF Returns
    <3> QED
      BY <2>1, <3>1, StepKinds, DnsInvInStage, DnsInvOffStage
  <2>2. CASE UNCHANGED vars
    BY <2>2 DEF vars, flags, world, DnsInv, ResetRemembered, DnsChecked,
       DnsUpdated, DnsAstray, Restoration, InStage, At, Running, Top
  <2> QED BY <2>1, <2>2
<1> QED BY <1>1, <1>2, TypeInvHolds, PTL DEF Spec

(* "We were in the midst of having our dns all screwy": wherever a test       *)
(* fails, handle() returns with the DNS restored, unless srdnsupdater itself  *)
(* failed or srworker died; also when run_process() ran too deep.             *)
THEOREM DnsComesBack == Spec => []DnsIsRestored
<1>1. DnsInv => DnsIsRestored
  <2> SUFFICES ASSUME DnsInv, faults["updates"] = 0, faults["deaths"] = 0,
                      stage \in {0, Done}, dns # "public"
               PROVE  FALSE
    BY DEF DnsIsRestored
  <2>1. Restoration
    BY DEF DnsInv, DnsAstray
  <2>2. stage = 0 \/ stage = 15
    BY StageNames
  <2>3. stage \in 6 .. 8 \/ stage \in 6 .. 9
    BY <2>1 DEF Restoration
  <2> QED BY <2>2, <2>3
<1> QED BY <1>1, DnsInvHolds, PTL

(* The resolvers that a test was run with.                                   *)
LEMMA RunnerMeets ==
    ASSUME TypeInv, DnsInv, Next
    PROVE  \/ UNCHANGED ran
           \/ /\ job \in Jobs
              /\ dns # "public"
              /\ faults'["updates"] = 0 => dns = Netconfig[job]
              /\ ran' = [ran EXCEPT ![job] = ran[job] \union {dns}]
<1>1. UNCHANGED ran \/ RunTests
  BY WorldSteps DEF world, StartCapture, SetDns, ResetDns, SaveCapture,
     SendResults, CaptureNotStarted, CaptureNotRetrieved
<1>2. CASE RunTests
  <2>1. Running("runner") /\ At("running") /\ Top.proc = "runner"
    BY <1>2 DEF RunTests, Running, At
  <2>2. job \in Jobs
    BY <2>1, RunningInJob
  <2>3. InStage /\ Stages[stage] = "runner" /\ stage \in 1 .. 14
    BY <2>1, RunsInStage DEF Rescuers
  <2>4. stage = 8
    BY <2>3, StageNames
  <2>5. dns # "public"
    BY <2>3, <2>4 DEF DnsInv, DnsChecked
  <2>6. faults'["updates"] = 0 => faults["updates"] = 0
    BY FaultsGrow DEF Kinds
  <2>7. faults'["updates"] = 0 => dns = Netconfig[job]
    BY <2>3, <2>4, <2>6 DEF DnsInv, DnsUpdated
  <2> QED BY <1>2, <2>2, <2>5, <2>7 DEF RunTests
<1> QED BY <1>1, <1>2

(* No test is run against the public internet, whatever srdns and the        *)
(* children of srworker do: srdnscheck aborts the test first.                *)
THEOREM TestsAreNeverInPublic == Spec => []NeverTestedInPublic
<1>1. Init => NeverTestedInPublic
  BY DEF Init, NeverTestedInPublic
<1>2. TypeInv /\ DnsInv /\ NeverTestedInPublic /\ [Next]_vars
            => NeverTestedInPublic'
  <2> SUFFICES ASSUME TypeInv, DnsInv, NeverTestedInPublic, [Next]_vars
               PROVE  NeverTestedInPublic'
    OBVIOUS
  <2>1. CASE UNCHANGED ran
    BY <2>1 DEF NeverTestedInPublic
  <2>2. CASE Next
    <3> SUFFICES ASSUME NEW j \in Jobs PROVE "public" \notin ran'[j]
      BY DEF NeverTestedInPublic
    <3>1. ran \in [Jobs -> SUBSET (NETCONFIGS \union {"public"})]
      BY DEF TypeInv, TypeOK
    <3> QED BY <2>1, <2>2, <3>1, RunnerMeets DEF NeverTestedInPublic
  <2> QED BY <2>1, <2>2 DEF vars, world
<1> QED BY <1>1, <1>2, TypeInvHolds, DnsInvHolds, PTL DEF Spec

(* A test meets only the servers of its own netconfig while no update of the *)
(* DNS goes wrong, even after a death of srworker in another test.           *)
THEOREM TestsAreOnTheirNetconfig == Spec => []TestedOnItsNetconfigIfUpdated
<1>1. Init => TestedOnItsNetconfigIfUpdated
  BY DEF Init, TestedOnItsNetconfigIfUpdated
<1>2. TypeInv /\ DnsInv /\ TestedOnItsNetconfigIfUpdated /\ [Next]_vars
            => TestedOnItsNetconfigIfUpdated'
  <2> SUFFICES ASSUME TypeInv, DnsInv, TestedOnItsNetconfigIfUpdated,
                      [Next]_vars
               PROVE  TestedOnItsNetconfigIfUpdated'
    OBVIOUS
  <2>1. CASE UNCHANGED vars
    BY <2>1 DEF vars, world, TestedOnItsNetconfigIfUpdated
  <2>2. CASE Next
    <3> SUFFICES ASSUME faults'["updates"] = 0, NEW j \in Jobs
                 PROVE  ran'[j] \subseteq {Netconfig[j]}
      BY DEF TestedOnItsNetconfigIfUpdated
    <3>1. ran \in [Jobs -> SUBSET (NETCONFIGS \union {"public"})]
      BY DEF TypeInv, TypeOK
    <3>2. ran[j] \subseteq {Netconfig[j]}
      BY <2>2, FaultsGrow DEF Kinds, TestedOnItsNetconfigIfUpdated
    <3> QED BY <2>2, <3>1, <3>2, RunnerMeets
  <2> QED BY <2>1, <2>2
<1> QED BY <1>1, <1>2, TypeInvHolds, DnsInvHolds, PTL DEF Spec
-----------------------------------------------------------------------------
(* Archiving and uploading, once each.                                       *)
LEMMA Counted ==
    ASSUME ControlTypeOK, NEW p, Count(p)
    PROVE  /\ calls'["archiver"] = IF p = "archiver" THEN calls["archiver"] + 1
                                   ELSE calls["archiver"]
           /\ calls'["uploader"] = IF p = "uploader" THEN calls["uploader"] + 1
                                   ELSE calls["uploader"]
BY DEF ControlTypeOK, Count

(* The numbers of the two calls.                                             *)
LEMMA CallNumbers ==
    ASSUME TypeInv, OnceInv
    PROVE  /\ calls["archiver"] \in {0, 1} /\ calls["uploader"] \in {0, 1}
           /\ calls["uploader"] = 1 => calls["archiver"] = 1
<1>1. calls["archiver"] \in Nat /\ calls["uploader"] \in Nat
  BY DEF TypeInv, TypeOK
<1>2. calls["uploader"] <= calls["archiver"] /\ calls["archiver"] <= 1
  BY DEF OnceInv, ArchivedAndUploadedOnce
<1> QED BY <1>1, <1>2

LEMMA OnceIfCounted ==
    ASSUME calls'["archiver"] \in {0, 1}, calls'["uploader"] \in {0, 1},
           calls'["uploader"] = 1 => calls'["archiver"] = 1,
           stage' = 15 => calls'["uploader"] = 1
    PROVE  ArchivedAndUploadedOnce'
<1>1. Done = 15
  BY StageNames
<1>2. calls'["uploader"] <= calls'["archiver"] /\ calls'["archiver"] <= 1
  OBVIOUS
<1> QED BY <1>1, <1>2 DEF ArchivedAndUploadedOnce

(* The stack of one running call owes what its flags say.                    *)
LEMMA OneCallDuties ==
    ASSUME NEW f \in Frame, frames' = <<f>>, f.at = "running",
           archive_on_failure' <=> stage' < 13, uploaded' <=> stage' > 13,
           archive_on_failure' <=> calls'["archiver"] = 0,
           uploaded' <=> calls'["uploader"] # 0
    PROVE  DutiesInv'
<1>1. Len(frames') = 1 /\ frames'[1] = f
  BY OneCall
<1>2. \A i \in 1 .. Len(frames') : frames'[i].at = "running"
  BY <1>1
<1>3. FlagsOfStage'
  BY DEF FlagsOfStage
<1>4. ArchiveFlag' /\ UploadFlag'
  BY <1>2 DEF ArchiveFlag, UploadFlag, NoneRestoring, Restoring
<1>5. ArchiveAside' /\ UploadAside'
  BY <1>2 DEF ArchiveAside, UploadAside, Restoring
<1>6. ArchiveDue' /\ UploadDue'
  BY DEF ArchiveDue, UploadDue
<1>7. ArchivePassed' /\ UploadPassed'
  BY <1>2 DEF ArchivePassed, UploadPassed
<1> QED BY <1>3, <1>4, <1>5, <1>6, <1>7 DEF DutiesInv

LEMMA EmptyStackDuties ==
    ASSUME frames' = <<>>,
           calls'["archiver"] # 0, calls'["uploader"] # 0,
           ~archive_on_failure', uploaded'
    PROVE  DutiesInv'
<1>1. \A i \in 1 .. Len(frames') : FALSE
  BY EmptySeq
<1>2. FlagsOfStage'
  BY DEF FlagsOfStage, InStage
<1>3. ArchiveFlag' /\ UploadFlag'
  BY DEF ArchiveFlag, UploadFlag
<1>4. ArchiveAside' /\ UploadAside'
  BY <1>1 DEF ArchiveAside, UploadAside
<1>5. ArchiveDue' /\ UploadDue'
  BY DEF ArchiveDue, UploadDue
<1>6. ArchivePassed' /\ UploadPassed'
  BY <1>1 DEF ArchivePassed, UploadPassed
<1> QED BY <1>2, <1>3, <1>4, <1>5, <1>6 DEF DutiesInv

LEMMA OnceReceive ==
    ASSUME Receive
    PROVE  OnceInv'
<1>1. /\ frames' = <<Call(Stages[1])>> /\ stage' = 1
      /\ calls' = NoCalls
      /\ archive_on_failure' = TRUE /\ uploaded' = FALSE
  BY DEF Receive
<1>2. calls'["archiver"] = 0 /\ calls'["uploader"] = 0
  BY <1>1 DEF NoCalls
<1>3. Call(Stages[1]) \in Frame /\ Call(Stages[1]).at = "running"
  BY CallIsFrame DEF Call
<1>4. archive_on_failure' /\ ~uploaded'
  BY <1>1
<1>5. DutiesInv'
  BY <1>1, <1>2, <1>3, <1>4, OneCallDuties
<1>6. ArchivedAndUploadedOnce'
  BY <1>1, <1>2, OnceIfCounted
<1> QED BY <1>5, <1>6 DEF OnceInv

LEMMA OnceEnd ==
    ASSUME TypeInv, OnceInv, Return \/ StartOver
    PROVE  OnceInv'
<1>1. stage' = 0 /\ calls' = calls
  BY DEF Return, StartOver
<1>2. ArchivedAndUploadedOnce'
  BY <1>1, CallNumbers, OnceIfCounted
<1> QED BY <1>1, <1>2 DEF OnceInv

LEMMA OnceNextStage ==
    ASSUME TypeInv, OnceInv, At("running"), Len(frames) = 1, NextStage
    PROVE  OnceInv'
<1>1. /\ InStage /\ Top.proc = Stages[stage] /\ stage \in 1 .. 14
      /\ Top = frames[1] /\ frames[1].at = "running"
  BY RunsInStage, InStageAlone DEF InStage
<1>2. stage' = stage + 1
  BY DEF NextStage
<1>3. /\ Stages[stage] = "collator" <=> stage = 12
      /\ Stages[stage] = "archiver" <=> stage = 13
  BY <1>1, StageNames
<1>4. \A i \in 1 .. Len(frames) : ~Restoring(i)
  <2>1. \A i \in 1 .. 1 : i = 1
    OBVIOUS
  <2> QED BY <1>1, <2>1 DEF Restoring
<1>5. stage # 0
  BY <1>1
<1>6. /\ archive_on_failure <=> stage < 13
      /\ uploaded <=> stage > 13
      /\ archive_on_failure <=> calls["archiver"] = 0
      /\ uploaded <=> calls["uploader"] # 0
  <2>1. DutiesInv
    BY <1>5 DEF OnceInv
  <2>2. (archive_on_failure <=> stage < 13) /\ (uploaded <=> stage > 13)
    BY <1>1, <2>1 DEF DutiesInv, FlagsOfStage
  <2>3. archive_on_failure <=> calls["archiver"] = 0
    BY <1>4, <2>1 DEF DutiesInv, ArchiveFlag, ArchiveDue
  <2>4. uploaded <=> calls["uploader"] # 0
    BY <1>4, <2>1 DEF DutiesInv, UploadFlag, UploadDue
  <2> QED BY <2>2, <2>3, <2>4
<1>7. /\ archive_on_failure' <=> archive_on_failure /\ stage # 12
      /\ uploaded' <=> uploaded \/ stage = 13
  <2>1. archive_on_failure' = (archive_on_failure /\ Top.proc # "collator")
    BY DEF NextStage
  <2>2. uploaded' = (uploaded \/ Top.proc = "archiver")
    BY DEF NextStage
  <2>3. Top.proc = "collator" <=> stage = 12
    BY <1>1, <1>3
  <2>4. Top.proc = "archiver" <=> stage = 13
    BY <1>1, <1>3
  <2>5. archive_on_failure' <=> archive_on_failure /\ stage # 12
    BY <2>1, <2>3
  <2>6. uploaded' <=> uploaded \/ stage = 13
    BY <2>2, <2>4
  <2> QED BY <2>5, <2>6
<1>8. /\ calls["archiver"] \in {0, 1} /\ calls["uploader"] \in {0, 1}
      /\ calls["uploader"] = 1 => calls["archiver"] = 1
  BY CallNumbers
<1>9. Done = 15
  BY StageNames
<1>10. CASE stage = 14
  <2>1. stage' = 15 /\ frames' = <<>> /\ calls' = calls
    BY <1>2, <1>9, <1>10 DEF NextStage
  <2>2. uploaded /\ ~archive_on_failure
    BY <1>6, <1>10
  <2>3. uploaded' /\ ~archive_on_failure'
    BY <1>7, <2>2
  <2>4. calls'["uploader"] = 1 /\ calls'["archiver"] = 1
    BY <1>6, <1>8, <2>1, <2>2
  <2>5. DutiesInv'
    BY <2>1, <2>3, <2>4, EmptyStackDuties
  <2>6. ArchivedAndUploadedOnce'
    BY <2>4, OnceIfCounted
  <2> QED BY <2>5, <2>6 DEF OnceInv
<1>11. CASE stage \in 1 .. 13
  <2>1. stage' \in 1 .. 14 /\ stage' \in 2 .. 14 /\ stage' # 15
    BY <1>2, <1>11
  <2>2. frames' = <<Call(Stages[stage'])>> /\ Count(Stages[stage'])
    BY <1>9, <2>1 DEF NextStage
  <2>3. Call(Stages[stage']) \in Frame /\ Call(Stages[stage']).at = "running"
    BY <2>1, CallIsFrame DEF Call
  <2>4. /\ Stages[stage'] = "archiver" <=> stage' = 13
        /\ Stages[stage'] = "uploader" <=> stage' = 14
    BY <2>1, StageNames
  <2>5. ControlTypeOK
    BY TypeOKParts DEF TypeInv
  <2>6. /\ calls'["archiver"] = IF stage' = 13 THEN calls["archiver"] + 1
                                ELSE calls["archiver"]
        /\ calls'["uploader"] = IF stage' = 14 THEN calls["uploader"] + 1
                                ELSE calls["uploader"]
    BY <2>2, <2>4, <2>5, Counted
  <2>7. archive_on_failure' <=> stage' < 13
    BY <1>2, <1>6, <1>7, <1>11
  <2>8. uploaded' <=> stage' > 13
    BY <1>2, <1>6, <1>7, <1>11
  <2>9. /\ calls'["archiver"] = IF stage' < 13 THEN 0 ELSE 1
        /\ calls'["uploader"] = IF stage' < 14 THEN 0 ELSE 1
    <3>1. CASE stage \in 1 .. 11
      <4>1. calls["archiver"] = 0 /\ calls["uploader"] = 0
        BY <1>6, <1>8, <3>1
      <4> QED BY <1>2, <2>6, <3>1, <4>1
    <3>2. CASE stage = 12
      <4>1. calls["archiver"] = 0 /\ calls["uploader"] = 0
        BY <1>6, <1>8, <3>2
      <4> QED BY <1>2, <2>6, <3>2, <4>1
    <3>3. CASE stage = 13
      <4>1. calls["archiver"] = 1 /\ calls["uploader"] = 0
        BY <1>6, <1>8, <3>3
      <4> QED BY <1>2, <2>6, <3>3, <4>1
    <3> QED BY <1>11, <3>1, <3>2, <3>3
  <2>10. DutiesInv'
    <3>1. archive_on_failure' <=> calls'["archiver"] = 0
      BY <2>1, <2>7, <2>9
    <3>2. uploaded' <=> calls'["uploader"] # 0
      BY <2>1, <2>8, <2>9
    <3> QED BY <2>2, <2>3, <2>7, <2>8, <3>1, <3>2, OneCallDuties
  <2>11. ArchivedAndUploadedOnce'
    BY <2>1, <2>9, OnceIfCounted
  <2> QED BY <2>10, <2>11 DEF OnceInv
<1> QED BY <1>1, <1>10, <1>11

(* A step that leaves the flags, the calls made and the restorations alone.   *)
LEMMA QuietDuties ==
    ASSUME DutiesInv, ~InStage',
           Len(frames) \in Nat, Len(frames') \in Nat,
           Len(frames') <= Len(frames),
           archive_on_failure' = archive_on_failure, uploaded' = uploaded,
           calls' = calls,
           \A i \in 1 .. Len(frames') : Restoring(i)' <=> Restoring(i),
           \A i \in 1 .. Len(frames') : Restoring(i) => frames'[i] = frames[i],
           \A i \in 1 .. Len(frames) : i > Len(frames') => ~Restoring(i),
           \A i \in 1 .. Len(frames') :
                /\ frames'[i].at \in {"archived", "uploaded"} =>
                        \/ frames[i].at \in {"archived", "uploaded"}
                        \/ ~archive_on_failure /\ i = Len(frames)
                           /\ ~Restoring(i)
                /\ frames'[i].at = "uploaded" =>
                        \/ frames[i].at = "uploaded"
                        \/ uploaded /\ i = Len(frames) /\ ~Restoring(i)
    PROVE  DutiesInv'
<1>1. \A i \in 1 .. Len(frames') : i \in 1 .. Len(frames)
  OBVIOUS
<1>2. \A i \in 1 .. Len(frames) : Restoring(i) => i \in 1 .. Len(frames')
  <2> TAKE i \in 1 .. Len(frames)
  <2> HAVE Restoring(i)
  <2>1. ~(i > Len(frames'))
    OBVIOUS
  <2> QED BY <2>1
<1>3. \A i \in 1 .. Len(frames') : \A k \in 1 .. i - 1 : k \in 1 .. Len(frames')
  OBVIOUS
<1>4. FlagsOfStage'
  BY DEF FlagsOfStage
<1>5. ArchiveFlag' /\ UploadFlag'
  BY <1>1 DEF DutiesInv, ArchiveFlag, UploadFlag, NoneRestoring
<1>6. ArchiveAside' /\ UploadAside'
  BY <1>1, <1>3 DEF DutiesInv, ArchiveAside, UploadAside
<1>7. ArchiveDue' /\ UploadDue'
  BY <1>1, <1>2 DEF DutiesInv, ArchiveDue, UploadDue
<1>8. ArchivePassed'
  <2> SUFFICES ASSUME NEW i \in 1 .. Len(frames'),
                      frames'[i].at \in {"archived", "uploaded"},
                      calls'["archiver"] = 0
               PROVE  \E k \in 1 .. i - 1 : Restoring(k)'
    BY DEF ArchivePassed
  <2>1. CASE frames[i].at \in {"archived", "uploaded"}
    BY <1>1, <1>3, <2>1 DEF DutiesInv, ArchivePassed
  <2>2. CASE ~archive_on_failure /\ i = Len(frames) /\ ~Restoring(i)
    <3>1. PICK k \in 1 .. Len(frames) : Restoring(k)
      BY <2>2 DEF DutiesInv, ArchiveDue
    <3>2. k \in 1 .. i - 1
      BY <2>2, <3>1
    <3> QED BY <1>3, <3>1, <3>2
  <2> QED BY <2>1, <2>2
<1>9. UploadPassed'
  <2> SUFFICES ASSUME NEW i \in 1 .. Len(frames'),
                      frames'[i].at = "uploaded",
                      calls'["uploader"] = 0
               PROVE  \E k \in 1 .. i - 1 : Restoring(k)'
    BY DEF UploadPassed
  <2>1. CASE frames[i].at = "uploaded"
    BY <1>1, <1>3, <2>1 DEF DutiesInv, UploadPassed
  <2>2. CASE uploaded /\ i = Len(frames) /\ ~Restoring(i)
    <3>1. PICK k \in 1 .. Len(frames) : Restoring(k)
      BY <2>2 DEF DutiesInv, UploadDue
    <3>2. k \in 1 .. i - 1
      BY <2>2, <3>1
    <3> QED BY <1>3, <3>1, <3>2
  <2> QED BY <2>1, <2>2
<1> QED BY <1>4, <1>5, <1>6, <1>7, <1>8, <1>9 DEF DutiesInv

(* The innermost call moves, or is over.                                     *)
LEMMA OnceMoves ==
    ASSUME TypeInv, OnceInv, ~InStage', frames # <<>>, ~Restoring(Len(frames)),
           NEW place \in {"failed", "restored", "archived", "uploaded"},
           frames' = MovesTo(place), UNCHANGED <<stage, flags, calls>>,
           place = "archived" => ~archive_on_failure,
           place = "uploaded" => Top.at = "archived" /\ uploaded
    PROVE  OnceInv'
<1>1. /\ stage # 0 /\ stage # 15 /\ stage' = stage /\ calls' = calls
      /\ archive_on_failure' = archive_on_failure /\ uploaded' = uploaded
  BY DEF TypeInv, StackInv, flags
<1>2. /\ frames' \in Seq(Frame)
      /\ Len(frames') = Len(frames)
      /\ \A i \in 1 .. Len(frames) - 1 : frames'[i] = frames[i]
      /\ frames'[Len(frames)] = [Top EXCEPT !.at = place]
  BY Moved DEF TypeInv
<1>3. Len(frames) \in Nat \ {0} /\ Top \in Frame /\ Top = frames[Len(frames)]
  BY StackTypes, EmptySeq DEF TypeInv, Top
<1>4. frames'[Len(frames)].at = place
  BY <1>2, <1>3 DEF Frame
<1>5. \A i \in 1 .. Len(frames') : i = Len(frames) \/ i \in 1 .. Len(frames) - 1
  BY <1>2, <1>3
<1>6. \A i \in 1 .. Len(frames') : Restoring(i)' <=> Restoring(i)
  BY <1>2, <1>4, <1>5 DEF Restoring
<1>7. \A i \in 1 .. Len(frames') : Restoring(i) => frames'[i] = frames[i]
  BY <1>2, <1>5
<1>8. \A i \in 1 .. Len(frames) : i > Len(frames') => ~Restoring(i)
  BY <1>2, <1>3
<1>9. \A i \in 1 .. Len(frames') :
         /\ frames'[i].at \in {"archived", "uploaded"} =>
                 \/ frames[i].at \in {"archived", "uploaded"}
                 \/ ~archive_on_failure /\ i = Len(frames) /\ ~Restoring(i)
         /\ frames'[i].at = "uploaded" =>
                 \/ frames[i].at = "uploaded"
                 \/ uploaded /\ i = Len(frames) /\ ~Restoring(i)
  <2> TAKE i \in 1 .. Len(frames')
  <2>1. CASE i \in 1 .. Len(frames) - 1
    BY <1>2, <2>1
  <2>2. CASE i = Len(frames)
    BY <1>3, <1>4, <2>2
  <2> QED BY <1>5, <2>1, <2>2
<1>10. DutiesInv /\ Len(frames') <= Len(frames) /\ Len(frames') \in Nat
  BY <1>1, <1>2, <1>3 DEF OnceInv
<1>11. DutiesInv'
  BY <1>1, <1>3, <1>6, <1>7, <1>8, <1>9, <1>10, QuietDuties
<1>12. ArchivedAndUploadedOnce'
  BY <1>1, CallNumbers, OnceIfCounted
<1> QED BY <1>11, <1>12 DEF OnceInv

LEMMA OncePops ==
    ASSUME TypeInv, OnceInv, ~InStage', Len(frames) > 1,
           ~Restoring(Len(frames)),
           frames' = Pop, UNCHANGED <<stage, flags, calls>>
    PROVE  OnceInv'
<1>0. frames # <<>> /\ Len(frames) \in Nat
  BY StackTypes DEF TypeInv
<1>1. /\ stage # 0 /\ stage # 15 /\ stage' = stage /\ calls' = calls
      /\ archive_on_failure' = archive_on_failure /\ uploaded' = uploaded
  BY <1>0 DEF TypeInv, StackInv, flags
<1>2. /\ frames' \in Seq(Frame)
      /\ Len(frames') = Len(frames) - 1
      /\ \A i \in 1 .. Len(frames) - 1 : frames'[i] = frames[i]
  BY <1>0, Popped DEF TypeInv
<1>3. \A i \in 1 .. Len(frames') : frames'[i] = frames[i]
  BY <1>2
<1>4. \A i \in 1 .. Len(frames') : Restoring(i)' <=> Restoring(i)
  BY <1>3 DEF Restoring
<1>5. \A i \in 1 .. Len(frames) : i > Len(frames') => ~Restoring(i)
  <2> TAKE i \in 1 .. Len(frames)
  <2> HAVE i > Len(frames')
  <2>1. i = Len(frames)
    BY <1>0, <1>2
  <2> QED BY <2>1
<1>6. /\ DutiesInv /\ Len(frames') <= Len(frames)
      /\ Len(frames') \in Nat
  BY <1>0, <1>1, <1>2 DEF OnceInv
<1>7. DutiesInv'
  BY <1>0, <1>1, <1>3, <1>4, <1>5, <1>6, QuietDuties
<1>8. ArchivedAndUploadedOnce'
  BY <1>1, CallNumbers, OnceIfCounted
<1> QED BY <1>7, <1>8 DEF OnceInv

LEMMA OnceQuietSteps ==
    ASSUME TypeInv, OnceInv,
           \/ At("running") /\ Fails
           \/ At("running") /\ Len(frames) > 1 /\ Returns
           \/ Skip
           \/ Len(frames) # 1 /\ DoError
    PROVE  OnceInv'
<1>0. Len(frames) \in Nat /\ (frames # <<>> <=> Len(frames) > 0)
  BY StackTypes DEF TypeInv
<1>1. CASE At("running") /\ Fails
  <2>1. ~InStage'
    BY <1>1, LeavesStage
  <2>2. frames # <<>> /\ ~Restoring(Len(frames))
    BY <1>1 DEF At, Top, Restoring
  <2> QED BY <1>1, <2>1, <2>2, OnceMoves DEF Fails
<1>2. CASE At("running") /\ Len(frames) > 1 /\ Returns
  <2>1. Len(frames) # 1
    BY <1>0, <1>2, MoreThanOne
  <2>2. frames' = Pop /\ UNCHANGED <<stage, flags, calls>>
    BY <1>2, <2>1 DEF Returns
  <2>3. ~InStage'
    BY <1>2, <2>2, LeavesStage
  <2>4. ~Restoring(Len(frames))
    BY <1>2 DEF At, Top, Restoring
  <2> QED BY <1>2, <2>2, <2>3, <2>4, OncePops
<1>3. CASE Skip
  <2>1. ~InStage'
    BY <1>3, LeavesStage
  <2>2. frames # <<>> /\ ~Restoring(Len(frames))
    BY <1>3 DEF Skip, At, Top, Restoring
  <2>3. UNCHANGED <<stage, flags, calls>>
    BY <1>3 DEF Skip
  <2>4. PICK place \in {"restored", "archived", "uploaded"} :
            /\ frames' = MovesTo(place)
            /\ place = "archived" => ~archive_on_failure
            /\ place = "uploaded" => Top.at = "archived" /\ uploaded
    BY <1>3 DEF Skip, Archives, Uploads, At
  <2> QED BY <2>1, <2>2, <2>3, <2>4, OnceMoves
<1>4. CASE Len(frames) # 1 /\ DoError
  <2>1. frames # <<>> /\ Top.at = "uploaded"
    BY <1>4 DEF DoError, At
  <2>a. Len(frames) > 0
    BY <1>0, <2>1
  <2>b. Len(frames) # 0
    BY <2>a
  <2>2. Len(frames) > 1
    BY <1>0, <1>4, <2>b, Sizes
  <2>3. frames' = Pop /\ UNCHANGED <<stage, flags, calls>>
    BY <1>4 DEF DoError
  <2>4. ~InStage'
    BY <1>4, LeavesStage
  <2>5. ~Restoring(Len(frames))
    BY <2>1 DEF Top, Restoring
  <2> QED BY <2>2, <2>3, <2>4, <2>5, OncePops
<1> QED BY <1>1, <1>2, <1>3, <1>4

LEMMA OnceLastError ==
    ASSUME TypeInv, OnceInv, Len(frames) = 1, DoError
    PROVE  OnceInv'
<1>1. /\ frames # <<>> /\ frames[1].at = "uploaded"
      /\ frames' = Pop /\ stage' = 15
      /\ UNCHANGED <<archive_on_failure, uploaded, calls>>
  BY StageNames DEF DoError, At, Top, flags
<1>2. frames' = <<>>
  BY <1>1, Popped DEF TypeInv
<1>3. DutiesInv
  BY <1>1 DEF TypeInv, StackInv, OnceInv
<1>4. 1 \in 1 .. Len(frames) /\ \A k \in 1 .. 1 - 1 : FALSE
  OBVIOUS
<1>5. calls["archiver"] # 0 /\ calls["uploader"] # 0
  BY <1>1, <1>3, <1>4 DEF DutiesInv, ArchivePassed, UploadPassed
<1>6. ~archive_on_failure /\ uploaded
  BY <1>3, <1>5 DEF DutiesInv, ArchiveFlag, UploadFlag
<1>7. DutiesInv'
  <2>1. ~archive_on_failure'
    BY <1>1, <1>6
  <2>2. uploaded'
    BY <1>1, <1>6
  <2> QED BY <1>1, <1>2, <1>5, <2>1, <2>2, EmptyStackDuties
<1>8. calls["archiver"] = 1 /\ calls["uploader"] = 1
  BY <1>5, CallNumbers
<1>9. ArchivedAndUploadedOnce'
  BY <1>1, <1>8, OnceIfCounted
<1> QED BY <1>7, <1>9 DEF OnceInv

LEMMA OnceRestoreDns ==
    ASSUME TypeInv, OnceInv, RestoreDns
    PROVE  OnceInv'
<1>n. PICK n \in Nat : n = Len(frames)
  BY StackTypes DEF TypeInv
<1>0. /\ frames # <<>> /\ Top.at = "failed" /\ stage' = stage /\ calls' = calls
      /\ archive_on_failure' = FALSE /\ uploaded' = TRUE
  BY DEF RestoreDns, RestoresDns, At
<1>1. /\ n \in Nat \ {0} /\ Top = frames[n] /\ Top \in Frame
      /\ stage # 0 /\ stage # 15
  BY <1>n, <1>0, StackTypes, EmptySeq DEF TypeInv, Top, StackInv
<1>2. frames' = Append(Aside, Call("dnsupdater --restore"))
  BY RestoreDnsPushes DEF TypeInv
<1>3. /\ Aside \in Seq(Frame) /\ Len(Aside) = n /\ Aside # <<>>
      /\ \A i \in 1 .. n - 1 : Aside[i] = frames[i]
      /\ Aside[n] = AsideTop
  BY <1>n, <1>0, PutAside DEF TypeInv
<1>4. /\ Len(frames') = n + 1
      /\ \A i \in 1 .. n : frames'[i] = Aside[i]
      /\ frames'[n + 1] = Call("dnsupdater --restore")
  BY <1>2, <1>3, Pushed, CallIsFrame DEF Rescuers
<1>5. /\ \A i \in 1 .. n - 1 : frames'[i] = frames[i]
      /\ frames'[n] = AsideTop
      /\ frames'[n + 1].at = "running"
      /\ \A i \in 1 .. n + 1 : i \in 1 .. n - 1 \/ i = n \/ i = n + 1
  <2>1. n \in 1 .. n /\ \A i \in 1 .. n - 1 : i \in 1 .. n
    BY <1>1
  <2>2. \A i \in 1 .. n + 1 : i \in 1 .. n - 1 \/ i = n \/ i = n + 1
    BY <1>1
  <2>a. Call("dnsupdater --restore").at = "running"
    BY DEF Call
  <2>3. frames'[n + 1].at = "running"
    BY <1>4, <2>a
  <2> QED BY <1>3, <1>4, <2>1, <2>2, <2>3
<1>6. /\ AsideTop.at = "restoring"
      /\ AsideTop.archive = archive_on_failure
      /\ AsideTop.uploaded = uploaded
  BY <1>1 DEF AsideTop, Frame
<1>7. ~Restoring(n)
  BY <1>0, <1>1 DEF Restoring
<1>8. /\ \A i \in 1 .. n - 1 : Restoring(i)' <=> Restoring(i)
      /\ Restoring(n)' /\ ~Restoring(n + 1)'
  BY <1>5, <1>6 DEF Restoring
<1>9. DutiesInv
  BY <1>1 DEF OnceInv
<1>10. FlagsOfStage'
  BY LeavesStage DEF FlagsOfStage
<1>11. ArchiveFlag' /\ UploadFlag'
  BY <1>0 DEF ArchiveFlag, UploadFlag
<1>12. ArchiveAside'
  <2> SUFFICES ASSUME NEW i \in 1 .. n + 1, Restoring(i)', frames'[i].archive
               PROVE  calls["archiver"] = 0 /\ \A k \in 1 .. i - 1 : ~Restoring(k)'
    BY <1>0, <1>4 DEF ArchiveAside
  <2>1. CASE i \in 1 .. n - 1
    <3>1. i \in 1 .. n /\ \A k \in 1 .. i - 1 : k \in 1 .. n - 1
      BY <1>1, <2>1
    <3> QED BY <1>n, <1>5, <1>8, <1>9, <2>1, <3>1 DEF DutiesInv, ArchiveAside
  <2>2. CASE i = n
    <3>1. archive_on_failure
      BY <1>5, <1>6, <2>2
    <3>2. calls["archiver"] = 0 /\ \A k \in 1 .. n : ~Restoring(k)
      BY <1>n, <1>9, <3>1 DEF DutiesInv, ArchiveFlag, NoneRestoring
    <3>3. \A k \in 1 .. n - 1 : k \in 1 .. n
      BY <1>1
    <3> QED BY <1>8, <2>2, <3>2, <3>3
  <2> QED BY <1>5, <1>8, <2>1, <2>2
<1>13. UploadAside'
  <2> SUFFICES ASSUME NEW i \in 1 .. n + 1, Restoring(i)', ~frames'[i].uploaded
               PROVE  calls["uploader"] = 0 /\ \A k \in 1 .. i - 1 : ~Restoring(k)'
    BY <1>0, <1>4 DEF UploadAside
  <2>1. CASE i \in 1 .. n - 1
    <3>1. i \in 1 .. n /\ \A k \in 1 .. i - 1 : k \in 1 .. n - 1
      BY <1>1, <2>1
    <3> QED BY <1>n, <1>5, <1>8, <1>9, <2>1, <3>1 DEF DutiesInv, UploadAside
  <2>2. CASE i = n
    <3>1. ~uploaded
      BY <1>5, <1>6, <2>2
    <3>2. calls["uploader"] = 0 /\ \A k \in 1 .. n : ~Restoring(k)
      BY <1>n, <1>9, <3>1 DEF DutiesInv, UploadFlag, NoneRestoring
    <3>3. \A k \in 1 .. n - 1 : k \in 1 .. n
      BY <1>1
    <3> QED BY <1>8, <2>2, <3>2, <3>3
  <2> QED BY <1>5, <1>8, <2>1, <2>2
<1>14. \A i \in 1 .. n : Restoring(i) => i \in 1 .. n - 1
  BY <1>1, <1>7
<1>15. n \in 1 .. n + 1 /\ \A i \in 1 .. n - 1 : i \in 1 .. n /\ i \in 1 .. n + 1
  BY <1>1
<1>16. ArchiveDue'
  <2> SUFFICES ASSUME calls["archiver"] = 0
               PROVE  \E i \in 1 .. n + 1 : Restoring(i)' /\ frames'[i].archive
    BY <1>0, <1>4 DEF ArchiveDue
  <2>1. CASE archive_on_failure
    BY <1>5, <1>6, <1>8, <1>15, <2>1
  <2>2. CASE \E i \in 1 .. n : Restoring(i) /\ frames[i].archive
    BY <1>5, <1>8, <1>14, <1>15, <2>2
  <2> QED BY <1>n, <1>9, <2>1, <2>2 DEF DutiesInv, ArchiveDue
<1>17. UploadDue'
  <2> SUFFICES ASSUME calls["uploader"] = 0
               PROVE  \E i \in 1 .. n + 1 : Restoring(i)' /\ ~frames'[i].uploaded
    BY <1>0, <1>4 DEF UploadDue
  <2>1. CASE ~uploaded
    BY <1>5, <1>6, <1>8, <1>15, <2>1
  <2>2. CASE \E i \in 1 .. n : Restoring(i) /\ ~frames[i].uploaded
    BY <1>5, <1>8, <1>14, <1>15, <2>2
  <2> QED BY <1>n, <1>9, <2>1, <2>2 DEF DutiesInv, UploadDue
<1>18. \A i \in 1 .. n - 1 : \A k \in 1 .. i - 1 : k \in 1 .. n - 1
  BY <1>1
<1>19. \A i \in 1 .. n + 1 :
            frames'[i].at \in {"archived", "uploaded"} => i \in 1 .. n - 1
  BY <1>5, <1>6
<1>20. ArchivePassed'
  <2> SUFFICES ASSUME NEW i \in 1 .. n + 1,
                      frames'[i].at \in {"archived", "uploaded"},
                      calls["archiver"] = 0
               PROVE  \E k \in 1 .. i - 1 : Restoring(k)'
    BY <1>0, <1>4 DEF ArchivePassed
  <2>1. i \in 1 .. n - 1 /\ i \in 1 .. n /\ frames'[i] = frames[i]
    BY <1>5, <1>15, <1>19
  <2>2. PICK k \in 1 .. i - 1 : Restoring(k)
    BY <1>n, <1>9, <2>1 DEF DutiesInv, ArchivePassed
  <2> QED BY <1>8, <1>18, <2>1, <2>2
<1>21. UploadPassed'
  <2> SUFFICES ASSUME NEW i \in 1 .. n + 1,
                      frames'[i].at = "uploaded",
                      calls["uploader"] = 0
               PROVE  \E k \in 1 .. i - 1 : Restoring(k)'
    BY <1>0, <1>4 DEF UploadPassed
  <2>1. i \in 1 .. n - 1 /\ i \in 1 .. n /\ frames'[i] = frames[i]
    BY <1>5, <1>15, <1>19
  <2>2. PICK k \in 1 .. i - 1 : Restoring(k)
    BY <1>n, <1>9, <2>1 DEF DutiesInv, UploadPassed
  <2> QED BY <1>8, <1>18, <2>1, <2>2
<1>22. ArchivedAndUploadedOnce'
  BY <1>0, <1>1, CallNumbers, OnceIfCounted
<1>23. DutiesInv'
  BY <1>10, <1>11, <1>12, <1>13, <1>16, <1>17, <1>20, <1>21 DEF DutiesInv
<1> QED BY <1>22, <1>23 DEF OnceInv

LEMMA OnceDnsRestored ==
    ASSUME TypeInv, OnceInv, DnsRestored
    PROVE  OnceInv'
<1>n. PICK n \in Nat : n = Len(frames)
  BY StackTypes DEF TypeInv
<1>0. /\ frames # <<>> /\ Top.at = "restoring"
      /\ stage' = stage /\ calls' = calls
      /\ frames' = MovesTo("restored")
      /\ archive_on_failure' = Top.archive /\ uploaded' = Top.uploaded
  BY DEF DnsRestored, At
<1>1. /\ n \in Nat \ {0} /\ Top = frames[n] /\ Top \in Frame
      /\ stage # 0 /\ stage # 15
  BY <1>n, <1>0, StackTypes, EmptySeq DEF TypeInv, Top, StackInv
<1>2. /\ Len(frames') = n
      /\ \A i \in 1 .. n - 1 : frames'[i] = frames[i]
      /\ frames'[n] = [Top EXCEPT !.at = "restored"]
  BY <1>n, <1>0, Moved DEF TypeInv
<1>3. frames'[n].at = "restored"
  BY <1>1, <1>2 DEF Frame
<1>4. /\ n \in 1 .. n
      /\ \A i \in 1 .. n : i \in 1 .. n - 1 \/ i = n
      /\ \A i \in 1 .. n - 1 : i \in 1 .. n /\ \A k \in 1 .. i - 1 : k \in 1 .. n - 1
  BY <1>1
<1>5. /\ \A i \in 1 .. n - 1 : Restoring(i)' <=> Restoring(i)
      /\ Restoring(n) /\ ~Restoring(n)'
  BY <1>0, <1>1, <1>2, <1>3 DEF Restoring
<1>6. DutiesInv
  BY <1>1 DEF OnceInv
<1>7. FlagsOfStage'
  BY LeavesStage DEF FlagsOfStage
<1>8. archive_on_failure' =>
            calls["archiver"] = 0 /\ \A k \in 1 .. n - 1 : ~Restoring(k)
  BY <1>n, <1>0, <1>1, <1>4, <1>5, <1>6 DEF DutiesInv, ArchiveAside
<1>9. ~uploaded' =>
            calls["uploader"] = 0 /\ \A k \in 1 .. n - 1 : ~Restoring(k)
  BY <1>n, <1>0, <1>1, <1>4, <1>5, <1>6 DEF DutiesInv, UploadAside
<1>10. ArchiveFlag' /\ UploadFlag'
  BY <1>0, <1>2, <1>4, <1>5, <1>8, <1>9 DEF ArchiveFlag, UploadFlag,
     NoneRestoring
<1>11. ArchiveAside'
  <2> SUFFICES ASSUME NEW i \in 1 .. n, Restoring(i)', frames'[i].archive
               PROVE  calls["archiver"] = 0 /\ \A k \in 1 .. i - 1 : ~Restoring(k)'
    BY <1>0, <1>2 DEF ArchiveAside
  <2>1. i \in 1 .. n - 1 /\ Restoring(i) /\ frames[i].archive
    BY <1>2, <1>4, <1>5
  <2> QED BY <1>n, <1>4, <1>5, <1>6, <2>1 DEF DutiesInv, ArchiveAside
<1>12. UploadAside'
  <2> SUFFICES ASSUME NEW i \in 1 .. n, Restoring(i)', ~frames'[i].uploaded
               PROVE  calls["uploader"] = 0 /\ \A k \in 1 .. i - 1 : ~Restoring(k)'
    BY <1>0, <1>2 DEF UploadAside
  <2>1. i \in 1 .. n - 1 /\ Restoring(i) /\ ~frames[i].uploaded
    BY <1>2, <1>4, <1>5
  <2> QED BY <1>n, <1>4, <1>5, <1>6, <2>1 DEF DutiesInv, UploadAside
<1>13. ArchiveDue'
  <2> SUFFICES ASSUME calls["archiver"] = 0, ~archive_on_failure'
               PROVE  \E i \in 1 .. n : Restoring(i)' /\ frames'[i].archive
    BY <1>0, <1>2 DEF ArchiveDue
  <2>1. ~archive_on_failure
    BY <1>n, <1>4, <1>5, <1>6 DEF DutiesInv, ArchiveFlag, NoneRestoring
  <2>2. PICK i \in 1 .. n : Restoring(i) /\ frames[i].archive
    BY <1>n, <1>6, <2>1 DEF DutiesInv, ArchiveDue
  <2>3. i # n
    BY <1>0, <1>1, <2>2
  <2> QED BY <1>2, <1>4, <1>5, <2>2, <2>3
<1>14. UploadDue'
  <2> SUFFICES ASSUME calls["uploader"] = 0, uploaded'
               PROVE  \E i \in 1 .. n : Restoring(i)' /\ ~frames'[i].uploaded
    BY <1>0, <1>2 DEF UploadDue
  <2>1. uploaded
    BY <1>n, <1>4, <1>5, <1>6 DEF DutiesInv, UploadFlag, NoneRestoring
  <2>2. PICK i \in 1 .. n : Restoring(i) /\ ~frames[i].uploaded
    BY <1>n, <1>6, <2>1 DEF DutiesInv, UploadDue
  <2>3. i # n
    BY <1>0, <1>1, <2>2
  <2> QED BY <1>2, <1>4, <1>5, <2>2, <2>3
<1>15. ArchivePassed'
  <2> SUFFICES ASSUME NEW i \in 1 .. n,
                      frames'[i].at \in {"archived", "uploaded"},
                      calls["archiver"] = 0
               PROVE  \E k \in 1 .. i - 1 : Restoring(k)'
    BY <1>0, <1>2 DEF ArchivePassed
  <2>1. i \in 1 .. n - 1 /\ frames'[i] = frames[i]
    BY <1>2, <1>3, <1>4
  <2>2. PICK k \in 1 .. i - 1 : Restoring(k)
    BY <1>n, <1>6, <2>1 DEF DutiesInv, ArchivePassed
  <2> QED BY <1>4, <1>5, <2>1, <2>2
<1>16. UploadPassed'
  <2> SUFFICES ASSUME NEW i \in 1 .. n, frames'[i].at = "uploaded",
                      calls["uploader"] = 0
               PROVE  \E k \in 1 .. i - 1 : Restoring(k)'
    BY <1>0, <1>2 DEF UploadPassed
  <2>1. i \in 1 .. n - 1 /\ frames'[i] = frames[i]
    BY <1>2, <1>3, <1>4
  <2>2. PICK k \in 1 .. i - 1 : Restoring(k)
    BY <1>n, <1>6, <2>1 DEF DutiesInv, UploadPassed
  <2> QED BY <1>4, <1>5, <2>1, <2>2
<1>17. ArchivedAndUploadedOnce'
  BY <1>0, <1>1, CallNumbers, OnceIfCounted
<1>18. DutiesInv'
  BY <1>7, <1>10, <1>11, <1>12, <1>13, <1>14, <1>15, <1>16 DEF DutiesInv
<1> QED BY <1>17, <1>18 DEF OnceInv

(* Archive and Upload: nobody restores the DNS.                              *)
LEMMA RescuerStack ==
    ASSUME TypeInv, frames # <<>>, NEW place \in {"archived", "uploaded"},
           NEW p \in Rescuers, frames' = Append(MovesTo(place), Call(p)),
           NoneRestoring
    PROVE  /\ NoneRestoring'
           /\ \A i \in 1 .. Len(frames') :
                \/ i \in 1 .. Len(frames) /\ frames'[i].at = frames[i].at
                \/ i = Len(frames) /\ frames'[i].at = place
                \/ frames'[i].at = "running"
<1>n. PICK n \in Nat : n = Len(frames)
  BY StackTypes DEF TypeInv
<1>1. n \in Nat \ {0} /\ Top \in Frame
  BY <1>n, StackTypes, EmptySeq DEF TypeInv
<1>2. /\ MovesTo(place) \in Seq(Frame)
      /\ Len(MovesTo(place)) = n
      /\ \A i \in 1 .. n - 1 : MovesTo(place)[i] = frames[i]
      /\ MovesTo(place)[n] = [Top EXCEPT !.at = place]
  BY <1>n, Moved DEF TypeInv
<1>3. MovesTo(place) # <<>>
  BY <1>1, <1>2, EmptySeq
<1>4. /\ Len(frames') = n + 1
      /\ \A i \in 1 .. n : frames'[i] = MovesTo(place)[i]
      /\ frames'[n + 1] = Call(p)
  BY <1>2, <1>3, Pushed, CallIsFrame
<1>5. /\ n \in 1 .. n
      /\ \A i \in 1 .. n - 1 : i \in 1 .. n
      /\ \A i \in 1 .. n + 1 : i \in 1 .. n - 1 \/ i = n \/ i = n + 1
  BY <1>1
<1>6. frames'[n].at = place
  BY <1>1, <1>2, <1>4, <1>5 DEF Frame
<1>7. frames'[n + 1].at = "running"
  BY <1>4 DEF Call
<1>8. \A i \in 1 .. n - 1 : frames'[i] = frames[i]
  BY <1>2, <1>4, <1>5
<1>9. \A i \in 1 .. n + 1 : \/ i \in 1 .. n /\ frames'[i].at = frames[i].at
                            \/ i = n /\ frames'[i].at = place
                            \/ frames'[i].at = "running"
  BY <1>5, <1>6, <1>7, <1>8
<1>10. NoneRestoring'
  BY <1>n, <1>4, <1>9 DEF NoneRestoring, Restoring
<1> QED BY <1>n, <1>4, <1>9, <1>10

LEMMA OnceArchive ==
    ASSUME TypeInv, OnceInv, Archive
    PROVE  OnceInv'
<1>1. /\ frames # <<>> /\ archive_on_failure
      /\ frames' = Append(MovesTo("archived"), Call("archiver"))
      /\ archive_on_failure' = FALSE
      /\ UNCHANGED <<stage, uploaded>>
      /\ Count("archiver")
  BY DEF Archive, Archives, At
<1>2. stage # 0 /\ stage # 15
  BY <1>1 DEF TypeInv, StackInv
<1>3. DutiesInv
  BY <1>2 DEF OnceInv
<1>4. NoneRestoring /\ calls["archiver"] = 0
  BY <1>1, <1>3 DEF DutiesInv, ArchiveFlag
<1>5. calls["uploader"] = 0 /\ calls["archiver"] + 1 = 1
  BY <1>4, CallNumbers
<1>6. calls'["archiver"] = 1 /\ calls'["uploader"] = 0
  <2>1. ControlTypeOK
    BY TypeOKParts DEF TypeInv
  <2> QED BY <1>1, <1>5, <2>1, Counted
<1>7. ~uploaded
  BY <1>3, <1>4, <1>5 DEF DutiesInv, UploadDue, NoneRestoring
<1>8. /\ NoneRestoring'
      /\ \A i \in 1 .. Len(frames') :
                \/ i \in 1 .. Len(frames) /\ frames'[i].at = frames[i].at
                \/ i = Len(frames) /\ frames'[i].at = "archived"
                \/ frames'[i].at = "running"
  BY <1>1, <1>4, RescuerStack DEF Rescuers
<1>9. FlagsOfStage'
  BY LeavesStage DEF FlagsOfStage
<1>10. ArchiveFlag' /\ UploadFlag'
  BY <1>1, <1>6, <1>8 DEF ArchiveFlag, UploadFlag
<1>11. ArchiveAside' /\ UploadAside'
  BY <1>8 DEF ArchiveAside, UploadAside, NoneRestoring
<1>12. ArchiveDue'
  BY <1>6 DEF ArchiveDue
<1>13. UploadDue'
  <2>1. ~uploaded'
    BY <1>1, <1>7
  <2> QED BY <2>1 DEF UploadDue
<1>14. ArchivePassed'
  BY <1>6 DEF ArchivePassed
<1>15. \A i \in 1 .. Len(frames) : frames[i].at # "uploaded"
  <2> SUFFICES ASSUME NEW i \in 1 .. Len(frames), frames[i].at = "uploaded"
               PROVE  FALSE
    OBVIOUS
  <2>1. PICK k \in 1 .. i - 1 : Restoring(k)
    BY <1>3, <1>5 DEF DutiesInv, UploadPassed
  <2>2. k \in 1 .. Len(frames)
    BY StackTypes DEF TypeInv
  <2> QED BY <1>4, <2>1, <2>2 DEF NoneRestoring
<1>16. UploadPassed'
  BY <1>8, <1>15 DEF UploadPassed
<1>17. DutiesInv'
  BY <1>9, <1>10, <1>11, <1>12, <1>13, <1>14, <1>16 DEF DutiesInv
<1>18. ArchivedAndUploadedOnce'
  BY <1>1, <1>2, <1>6, OnceIfCounted
<1> QED BY <1>17, <1>18 DEF OnceInv

LEMMA OnceUpload ==
    ASSUME TypeInv, OnceInv, Upload
    PROVE  OnceInv'
<1>1. /\ frames # <<>> /\ Top.at = "archived" /\ ~uploaded
      /\ frames' = Append(MovesTo("uploaded"), Call("uploader"))
      /\ uploaded' = TRUE
      /\ UNCHANGED <<stage, archive_on_failure>>
      /\ Count("uploader")
  BY DEF Upload, Uploads, At
<1>2. stage # 0 /\ stage # 15
  BY <1>1 DEF TypeInv, StackInv
<1>3. DutiesInv
  BY <1>2 DEF OnceInv
<1>4. NoneRestoring /\ calls["uploader"] = 0
  BY <1>1, <1>3 DEF DutiesInv, UploadFlag
<1>5. calls["archiver"] # 0
  <2>1. Len(frames) \in 1 .. Len(frames) /\ Top = frames[Len(frames)]
        /\ Len(frames) \in Nat
    BY <1>1, StackTypes DEF TypeInv, Top
  <2> SUFFICES ASSUME calls["archiver"] = 0 PROVE FALSE
    OBVIOUS
  <2>2. PICK k \in 1 .. Len(frames) - 1 : Restoring(k)
    BY <1>1, <1>3, <2>1 DEF DutiesInv, ArchivePassed
  <2>3. k \in 1 .. Len(frames)
    BY <2>1
  <2> QED BY <1>4, <2>2, <2>3 DEF NoneRestoring
<1>6. calls'["archiver"] = 1 /\ calls'["uploader"] = 1
  <2>1. ControlTypeOK /\ calls["archiver"] = 1 /\ calls["uploader"] + 1 = 1
    BY <1>4, <1>5, TypeOKParts, CallNumbers DEF TypeInv
  <2> QED BY <1>1, <1>4, <2>1, Counted
<1>7. ~archive_on_failure
  BY <1>3, <1>5 DEF DutiesInv, ArchiveFlag
<1>8. NoneRestoring'
  BY <1>1, <1>4, RescuerStack DEF Rescuers
<1>9. FlagsOfStage'
  BY LeavesStage DEF FlagsOfStage
<1>10. ArchiveFlag' /\ UploadFlag'
  <2>1. ~archive_on_failure'
    BY <1>1, <1>7
  <2>2. uploaded'
    BY <1>1
  <2> QED BY <2>1, <2>2 DEF ArchiveFlag, UploadFlag
<1>11. ArchiveAside' /\ UploadAside'
  BY <1>8 DEF ArchiveAside, UploadAside, NoneRestoring
<1>12. ArchiveDue' /\ UploadDue'
  BY <1>6 DEF ArchiveDue, UploadDue
<1>13. ArchivePassed' /\ UploadPassed'
  BY <1>6 DEF ArchivePassed, UploadPassed
<1>14. DutiesInv'
  BY <1>9, <1>10, <1>11, <1>12, <1>13 DEF DutiesInv
<1>15. ArchivedAndUploadedOnce'
  BY <1>1, <1>2, <1>6, OnceIfCounted
<1> QED BY <1>14, <1>15 DEF OnceInv

LEMMA OnceInvHolds == Spec => []OnceInv
<1>1. Init => OnceInv
  <2> SUFFICES ASSUME Init PROVE OnceInv
    OBVIOUS
  <2>1. Done = 15
    BY StageNames
  <2>2. stage = 0 /\ calls["archiver"] = 0 /\ calls["uploader"] = 0
    BY DEF Init, NoCalls
  <2> QED BY <2>1, <2>2 DEF OnceInv, ArchivedAndUploadedOnce
<1>2. TypeInv /\ OnceInv /\ [Next]_vars => OnceInv'
  <2> SUFFICES ASSUME TypeInv, OnceInv, [Next]_vars PROVE OnceInv'
    OBVIOUS
  <2>1. CASE Next
    <3>1. At("running") /\ Returns =>
                \/ At("running") /\ Len(frames) > 1 /\ Returns
                \/ At("running") /\ Len(frames) = 1 /\ NextStage
      BY DEF Returns
    <3> QED
      BY <2>1, <3>1, StepKinds, OnceReceive, OnceEnd, OnceNextStage,
         OnceQuietSteps, OnceLastError, OnceRestoreDns, OnceDnsRestored,
         OnceArchive, OnceUpload
  <2>2. CASE UNCHANGED vars
    BY <2>2 DEF vars, flags, OnceInv, ArchivedAndUploadedOnce, DutiesInv,
       FlagsOfStage, InStage, ArchiveFlag, UploadFlag, NoneRestoring,
       ArchiveAside, UploadAside, ArchiveDue, UploadDue, ArchivePassed,
       UploadPassed, Restoring
  <2> QED BY <2>1, <2>2
<1> QED BY <1>1, <1>2, TypeInvHolds, PTL DEF Spec

(* "don't try to archive again if for some reason the archival process       *)
(* fails": whatever fails, in whatever order and however deep run_process()   *)
(* is in its own calls, handle() runs srarchiver once, then sruploader once,  *)
(* before it returns.                                                        *)
THEOREM ArchiveAndUploadOnce == Spec => []ArchivedAndUploadedOnce
<1>1. OnceInv => ArchivedAndUploadedOnce
  BY DEF OnceInv
<1> QED BY <1>1, OnceInvHolds, PTL
-----------------------------------------------------------------------------
(* Where the packets of a test are.                                          *)
TrafficStays ==
    \A nc \in NETCONFIGS : pcaps'[nc].traffic = pcaps[nc].traffic

Loses(n) ==
    /\ pcaps'[n].traffic = {}
    /\ \A nc \in NETCONFIGS \ {n} : pcaps'[nc].traffic = pcaps[nc].traffic

LEMMA PacketSteps ==
    ASSUME TypeInv, Next
    PROVE  \/ TrafficStays /\ saved' = saved
           \/ /\ job \in Jobs /\ InStage /\ stage = 8 /\ saved' = saved
              /\ \A nc \in NETCONFIGS :
                    \/ pcaps'[nc].traffic = pcaps[nc].traffic
                    \/ nc = dns /\ pcaps'[nc].traffic = pcaps[nc].traffic \union {job}
           \/ \E n \in NETCONFIGS :
                /\ job \in Jobs /\ Loses(n)
                /\ \/ saved' = saved
                   \/ saved' = [saved EXCEPT ![job] = pcaps[n].traffic]
<1>1. pcaps \in [NETCONFIGS -> Capture]
  BY DEF TypeInv, TypeOK, PcapperTypeOK
<1>2. ASSUME NEW n \in NETCONFIGS
      PROVE  /\ Start(n) => TrafficStays
             /\ StartFails(n) => TrafficStays
             /\ Stop(n) => TrafficStays
             /\ Retrieve(n) => Loses(n)
  <2>1. Start(n) => TrafficStays
    BY <1>1 DEF Capture, Start, TrafficStays
  <2>2. StartFails(n) => TrafficStays
    BY <1>1 DEF Capture, StartFails, TrafficStays
  <2>3. Stop(n) => TrafficStays
    BY <1>1 DEF Capture, Stop, TrafficStays
  <2>4. Retrieve(n) => Loses(n)
    BY <1>1 DEF Capture, Retrieve, NoCapture, Loses
  <2> QED BY <2>1, <2>2, <2>3, <2>4
<1>3. CASE UNCHANGED world \/ SetDns \/ ResetDns \/ SendResults
  BY <1>3 DEF world, SetDns, ResetDns, SendResults, TrafficStays
<1>4. CASE StartCapture \/ CaptureNotStarted
  <2>1. MyNetconfig \in NETCONFIGS /\ saved' = saved
    BY <1>4, RunningInJob DEF StartCapture, CaptureNotStarted
  <2> QED BY <1>2, <1>4, <2>1 DEF StartCapture, CaptureNotStarted
<1>5. CASE RunTests
  <2>1. Running("runner") /\ At("running") /\ Top.proc = "runner"
    BY <1>5 DEF RunTests, Running, At
  <2>2. job \in Jobs
    BY <2>1, RunningInJob
  <2>3. InStage /\ Stages[stage] = "runner" /\ stage \in 1 .. 14
    BY <2>1, RunsInStage DEF Rescuers
  <2>4. stage = 8
    BY <2>3, StageNames
  <2>5. \A nc \in NETCONFIGS :
            \/ pcaps'[nc].traffic = pcaps[nc].traffic
            \/ nc = dns /\ pcaps'[nc].traffic = pcaps[nc].traffic \union {job}
    <3>1. CASE dns \in NETCONFIGS
      BY <1>1, <1>5, <3>1 DEF RunTests, Sniff, Capture
    <3>2. CASE dns \notin NETCONFIGS
      BY <1>5, <3>2 DEF RunTests
    <3> QED BY <3>1, <3>2
  <2> QED BY <1>5, <2>2, <2>3, <2>4, <2>5 DEF RunTests
<1>6. CASE SaveCapture
  <2>1. MyNetconfig \in NETCONFIGS /\ job \in Jobs
    BY <1>6, RunningInJob DEF SaveCapture
  <2>2. CASE Stoppable(MyNetconfig)
    BY <1>2, <1>6, <2>1, <2>2 DEF SaveCapture
  <2>3. CASE ~Stoppable(MyNetconfig)
    BY <1>6, <2>3 DEF SaveCapture, TrafficStays
  <2> QED BY <2>2, <2>3
<1>7. CASE CaptureNotRetrieved
  <2>1. MyNetconfig \in NETCONFIGS /\ job \in Jobs /\ saved' = saved
    BY <1>7, RunningInJob DEF CaptureNotRetrieved
  <2>2. Stop(MyNetconfig) \/ Retrieve(MyNetconfig)
    BY <1>7 DEF CaptureNotRetrieved
  <2> QED BY <1>2, <2>1, <2>2
<1> QED
  BY <1>3, <1>4, <1>5, <1>6, <1>7, WorldSteps

(* A job is new, or in its first test, only if it was so before.             *)
LEMMA NotYetTestedBefore ==
    ASSUME TypeInv, Next, NEW j \in Jobs
    PROVE  /\ workdirs'[j] <= 1 => workdirs[j] <= 1
           /\ NotYetTested(j)' =>
                /\ NotYetTested(j)
                /\ j = job /\ InStage => stage # 8
<1>1. workdirs \in [Jobs -> 0 .. 2]
  BY DEF TypeInv, TypeOK
<1>2. \/ Receive
      \/ workdirs' = workdirs /\ (job' = job \/ stage' = 0)
  BY StepKinds DEF Return, StartOver, Fails, Returns, NextStage, RestoreDns,
     DnsRestored, Archive, Upload, Skip, DoError
<1>3. InStage => /\ stage # 0 /\ job \in Jobs
                 /\ workdirs[job] # 0
  <2> SUFFICES ASSUME InStage PROVE stage # 0 /\ job \in Jobs /\ workdirs[job] # 0
    OBVIOUS
  <2>1. stage # 0
    BY InStageAlone
  <2>2. job \in Jobs /\ workdirs[job] >= 1
    BY <2>1 DEF TypeInv, StackInv
  <2> QED BY <1>1, <2>1, <2>2
<1>4. CASE Receive
  <2>1. /\ stage = 0 /\ job \in Jobs /\ job' = job
        /\ workdirs' = [workdirs EXCEPT ![job] = workdirs[job] + 1]
        /\ ~InStage
    BY <1>3, <1>4 DEF Receive
  <2>2. CASE j = job
    <3>1. workdirs'[j] = workdirs[j] + 1 /\ workdirs[j] \in 0 .. 2
      BY <1>1, <2>1, <2>2
    <3>2. workdirs'[j] <= 1 => workdirs[j] = 0
      BY <3>1
    <3>3. workdirs'[j] # 0
      BY <3>1
    <3> QED BY <2>1, <3>1, <3>2, <3>3 DEF NotYetTested
  <2>3. CASE j # job
    BY <1>1, <2>1, <2>3 DEF NotYetTested
  <2> QED BY <2>2, <2>3
<1>5. CASE workdirs' = workdirs /\ (job' = job \/ stage' = 0)
  <2>1. workdirs'[j] = workdirs[j]
    BY <1>5
  <2> SUFFICES ASSUME NotYetTested(j)'
               PROVE  NotYetTested(j) /\ (j = job /\ InStage => stage # 8)
    BY <2>1
  <2>2. CASE workdirs'[j] = 0
    BY <1>3, <2>1, <2>2 DEF NotYetTested
  <2>3. CASE j = job' /\ workdirs'[j] = 1 /\ InStage' /\ stage' <= 8
    <3>1. ~Return /\ ~StartOver /\ ~Receive
      <4>1. ~Return /\ ~StartOver
        BY <2>3, LeavesStage
      <4>2. ~Receive
        <5> SUFFICES ASSUME Receive PROVE FALSE
          OBVIOUS
        <5>1. job \in Jobs /\ workdirs' = [workdirs EXCEPT ![job] = workdirs[job] + 1]
          BY DEF Receive
        <5>2. workdirs'[job] = workdirs[job] + 1 /\ workdirs[job] \in 0 .. 2
          BY <1>1, <5>1
        <5> QED BY <1>5, <5>2
      <4> QED BY <4>1, <4>2
    <3>2. At("running") /\ Returns /\ ~(Len(frames) > 1 /\ frames' = Pop)
      BY <2>3, <3>1, StepKinds, LeavesStage
    <3>3. Len(frames) = 1 /\ NextStage
      BY <3>2 DEF Returns
    <3>4. InStage /\ stage \in 1 .. 14
      BY <3>2, <3>3, RunsInStage
    <3>5. stage' = stage + 1 /\ job' = job
      BY <3>3 DEF NextStage
    <3>6. stage <= 8 /\ stage # 8
      BY <2>3, <3>4, <3>5
    <3> QED BY <2>1, <2>3, <3>4, <3>5, <3>6 DEF NotYetTested
  <2> QED BY <2>2, <2>3 DEF NotYetTested
<1> QED BY <1>2, <1>4, <1>5

LEMMA PacketsMove ==
    ASSUME TypeInv, PacketsInv, Next
    PROVE  PacketsInv'
<1> SUFFICES ASSUME NEW j \in Jobs
             PROVE  /\ NotYetTested(j)' => Unsniffed(j)'
                    /\ workdirs'[j] <= 1 => InOnePlace(j)'
  BY DEF PacketsInv
<1>1. /\ NotYetTested(j) => Unsniffed(j)
      /\ workdirs[j] <= 1 => InOnePlace(j)
  BY DEF PacketsInv
<1>2. /\ workdirs'[j] <= 1 => workdirs[j] <= 1
      /\ NotYetTested(j)' => NotYetTested(j)
      /\ NotYetTested(j)' => (j = job /\ InStage => stage # 8)
  BY NotYetTestedBefore
<1>3. SUFFICES /\ Unsniffed(j) /\ (j = job /\ InStage => stage # 8) => Unsniffed(j)'
               /\ workdirs[j] <= 1 => InOnePlace(j)'
  BY <1>1, <1>2
<1>4. saved \in [Jobs -> SUBSET Jobs]
  BY DEF TypeInv, TypeOK
<1>5. CASE TrafficStays /\ saved' = saved
  <2>1. Unsniffed(j) => Unsniffed(j)'
    BY <1>5 DEF TrafficStays, Unsniffed
  <2>2. InOnePlace(j) => InOnePlace(j)'
    BY <1>5 DEF TrafficStays, InOnePlace
  <2> QED BY <1>1, <2>1, <2>2
<1>6. CASE /\ job \in Jobs /\ InStage /\ stage = 8 /\ saved' = saved
           /\ \A nc \in NETCONFIGS :
                 \/ pcaps'[nc].traffic = pcaps[nc].traffic
                 \/ nc = dns /\ pcaps'[nc].traffic = pcaps[nc].traffic \union {job}
  <2>1. CASE j = job
    <3>1. ASSUME workdirs[j] <= 1 PROVE InOnePlace(j)'
      <4>1. workdirs[job] = 1
        <5>1. workdirs[job] \in 0 .. 2
          BY <1>6 DEF TypeInv, TypeOK
        <5>2. workdirs[job] >= 1
          BY <1>6 DEF TypeInv, StackInv
        <5> QED BY <2>1, <3>1, <5>1, <5>2
      <4>2. Unsniffed(j)
        BY <1>1, <1>6, <2>1, <4>1 DEF NotYetTested
      <4>3. \A nc \in NETCONFIGS : j \in pcaps'[nc].traffic => nc = dns
        BY <1>6, <4>2 DEF Unsniffed
      <4>4. \A i \in Jobs : j \notin saved'[i]
        BY <1>6, <4>2 DEF Unsniffed
      <4> QED BY <4>3, <4>4 DEF InOnePlace
    <3> QED BY <1>6, <2>1, <3>1
  <2>2. CASE j # job
    <3>1. \A nc \in NETCONFIGS : j \in pcaps'[nc].traffic <=> j \in pcaps[nc].traffic
      BY <1>6, <2>2
    <3>2. Unsniffed(j) => Unsniffed(j)'
      BY <1>6, <3>1 DEF Unsniffed
    <3>3. InOnePlace(j) => InOnePlace(j)'
      BY <1>6, <3>1 DEF InOnePlace
    <3> QED BY <1>1, <3>2, <3>3
  <2> QED BY <2>1, <2>2
<1>7. ASSUME NEW n \in NETCONFIGS, job \in Jobs, Loses(n),
             \/ saved' = saved
             \/ saved' = [saved EXCEPT ![job] = pcaps[n].traffic]
      PROVE  /\ Unsniffed(j) => Unsniffed(j)'
             /\ InOnePlace(j) => InOnePlace(j)'
  <2>1. /\ j \notin pcaps'[n].traffic
        /\ \A nc \in NETCONFIGS : j \in pcaps'[nc].traffic =>
                nc # n /\ j \in pcaps[nc].traffic
    BY <1>7 DEF Loses
  <2>2. \A i \in Jobs : j \in saved'[i] =>
                j \in saved[i] \/ (i = job /\ j \in pcaps[n].traffic)
    BY <1>4, <1>7
  <2>3. Unsniffed(j) => Unsniffed(j)'
    BY <1>7, <2>1, <2>2 DEF Unsniffed
  <2>4. ASSUME InOnePlace(j) PROVE InOnePlace(j)'
    <3>1. \A n1, n2 \in NETCONFIGS :
            j \in pcaps'[n1].traffic /\ j \in pcaps'[n2].traffic => n1 = n2
      BY <2>1, <2>4 DEF InOnePlace
    <3>2. \A nc \in NETCONFIGS, i \in Jobs :
            j \in pcaps'[nc].traffic => j \notin saved'[i]
      BY <2>1, <2>2, <2>4 DEF InOnePlace
    <3>3. \A i1, i2 \in Jobs : j \in saved'[i1] /\ j \in saved'[i2] => i1 = i2
      BY <2>2, <2>4 DEF InOnePlace
    <3> QED BY <3>1, <3>2, <3>3 DEF InOnePlace
  <2> QED BY <2>3, <2>4
<1> QED
  BY <1>1, <1>5, <1>6, <1>7, PacketSteps

(* The packets of a test that the client ran once are in one saved capture   *)
(* at most, whatever tests failed before and after it, and wherever.         *)
THEOREM PacketsAreSavedOnce == Spec => []NoPacketsSavedTwice
<1>1. Init => PacketsInv
  BY JobsAssumption DEF Init, PcapperInit, NoCapture, PacketsInv, NotYetTested,
     Unsniffed, InOnePlace
<1>2. TypeInv /\ PacketsInv /\ [Next]_vars => PacketsInv'
  <2>1. PacketsInv /\ UNCHANGED vars => PacketsInv'
    BY DEF vars, world, PacketsInv, NotYetTested, Unsniffed, InOnePlace, InStage
  <2> QED BY <2>1, PacketsMove
<1>3. PacketsInv => NoPacketsSavedTwice
  BY DEF PacketsInv, InOnePlace, NoPacketsSavedTwice
<1> QED BY <1>1, <1>2, <1>3, TypeInvHolds, PTL DEF Spec
-----------------------------------------------------------------------------
(* The machine does what module Handling promises of it.                     *)

(* Who runs sruploader has counted it.                                       *)
UploaderCounted ==
    (\E i \in 1 .. Len(frames) : frames[i].proc = "uploader")
        => calls["uploader"] # 0

(* Only the innermost call has a running child.                              *)
LEMMA LastRuns ==
    ASSUME NEW s \in Seq(Frame), \A i \in 1 .. Len(s) - 1 : s[i].at \in Waiting
    PROVE  (\A i \in 1 .. Len(s) : s[i].proc = "uploader" => s[i].at # "running")
             <=> ~(s # <<>> /\ s[Len(s)].at = "running"
                            /\ s[Len(s)].proc = "uploader")
<1>1. Len(s) \in Nat /\ (s # <<>> => Len(s) \in 1 .. Len(s))
  BY EmptySeq
<1>2. \A i \in 1 .. Len(s) : s # <<>> /\ (i = Len(s) \/ i \in 1 .. Len(s) - 1)
  BY <1>1, EmptySeq
<1> QED BY <1>1, <1>2 DEF Waiting

LEMMA UploaderEnds ==
    ASSUME TypeInv
    PROVE  UploaderEnded <=> calls["uploader"] > 0 /\ ~Running("uploader")
BY LastRuns DEF TypeInv, TypeOK, StackInv, UploaderEnded, Running, Top

LEMMA UploaderEndsNext ==
    ASSUME TypeInv'
    PROVE  UploaderEnded' <=> calls'["uploader"] > 0 /\ ~Running("uploader")'
<1>1. frames' \in Seq(Frame) /\ \A i \in 1 .. Len(frames') - 1 : frames'[i].at \in Waiting
  BY DEF TypeInv, TypeOK, StackInv
<1> QED BY <1>1, LastRuns DEF UploaderEnded, Running, Top

(* What a step does to the children of srworker: it may start sruploader.    *)
NoUploader ==
    /\ calls'["uploader"] = calls["uploader"]
    /\ ~Running("uploader")'
    /\ \A i \in 1 .. Len(frames') : frames'[i].proc = "uploader" =>
            \E k \in 1 .. Len(frames) : frames[k].proc = "uploader"

UploaderStarts ==
    /\ calls'["uploader"] = calls["uploader"] + 1
    /\ Running("uploader")'

LEMMA MovesNoUploader ==
    ASSUME TypeInv, frames # <<>>, calls' = calls,
           NEW place \in {"failed", "restored", "archived", "uploaded"},
           frames' = MovesTo(place)
    PROVE  NoUploader
<1>n. PICK n \in Nat : n = Len(frames)
  BY StackTypes DEF TypeInv
<1>1. n \in Nat \ {0} /\ Top \in Frame /\ Top = frames[n]
  BY <1>n, StackTypes, EmptySeq DEF TypeInv, Top
<1>2. /\ Len(frames') = n
      /\ \A i \in 1 .. n - 1 : frames'[i] = frames[i]
      /\ frames'[n] = [Top EXCEPT !.at = place]
  <2>1. /\ Len(frames') = Len(frames)
        /\ \A i \in 1 .. Len(frames) - 1 : frames'[i] = frames[i]
        /\ frames'[Len(frames)] = [Top EXCEPT !.at = place]
    BY Moved DEF TypeInv
  <2> QED BY <1>n, <2>1
<1>3. frames'[n].at = place /\ frames'[n].proc = frames[n].proc
  BY <1>1, <1>2 DEF Frame
<1>4. \A i \in 1 .. n : i = n \/ i \in 1 .. n - 1
  BY <1>1
<1>5. ~Running("uploader")'
  BY <1>2, <1>3 DEF Running, Top
<1>6. \A i \in 1 .. n : frames'[i].proc = frames[i].proc
  BY <1>2, <1>3, <1>4
<1> QED BY <1>n, <1>2, <1>5, <1>6 DEF NoUploader

LEMMA PopsNoUploader ==
    ASSUME TypeInv, frames # <<>>, calls' = calls, frames' = Pop
    PROVE  NoUploader
<1>n. PICK n \in Nat : n = Len(frames)
  BY StackTypes DEF TypeInv
<1>1. /\ Len(frames') = n - 1
      /\ \A i \in 1 .. n - 1 : frames'[i] = frames[i]
      /\ frames' # <<>> <=> n > 1
  BY <1>n, Popped DEF TypeInv
<1>2. \A i \in 1 .. n - 1 : i \in 1 .. n /\ frames[i].at \in Waiting
  BY <1>n DEF TypeInv, StackInv
<1>3. ~Running("uploader")'
  <2> SUFFICES ASSUME frames' # <<>> PROVE Top'.at # "running"
    BY DEF Running
  <2>1. n - 1 \in 1 .. n - 1
    BY <1>1
  <2> QED BY <1>1, <1>2, <2>1 DEF Top, Waiting
<1> QED BY <1>n, <1>1, <1>2, <1>3 DEF NoUploader

(* s is the stack of which only the innermost call has changed.              *)
LEMMA PushesCalls ==
    ASSUME TypeInv, frames # <<>>, NEW s \in Seq(Frame), Len(s) = Len(frames),
           \A i \in 1 .. Len(frames) - 1 : s[i] = frames[i],
           s[Len(frames)].proc = Top.proc,
           NEW p \in Rescuers, frames' = Append(s, Call(p))
    PROVE  /\ Running(p)'
           /\ p # "uploader" /\ calls'["uploader"] = calls["uploader"] => NoUploader
<1>n. PICK n \in Nat : n = Len(frames)
  BY StackTypes DEF TypeInv
<1>1. n \in Nat \ {0} /\ Top = frames[n] /\ s # <<>>
  BY <1>n, StackTypes, EmptySeq DEF TypeInv, Top
<1>2. /\ Len(frames') = n + 1 /\ frames' # <<>>
      /\ \A i \in 1 .. n : frames'[i] = s[i]
      /\ frames'[n + 1] = Call(p)
  BY <1>n, <1>1, Pushed, CallIsFrame
<1>3. Call(p).at = "running" /\ Call(p).proc = p
  BY DEF Call
<1>4. Running(p)' /\ (p # "uploader" => ~Running("uploader")')
  BY <1>2, <1>3 DEF Running, Top
<1>5. \A i \in 1 .. n : i = n \/ i \in 1 .. n - 1
  BY <1>1
<1>6. \A i \in 1 .. n : frames'[i].proc = frames[i].proc
  BY <1>n, <1>1, <1>2, <1>5
<1>7. \A i \in 1 .. n + 1 : i \in 1 .. n \/ i = n + 1
  BY <1>1
<1> QED BY <1>n, <1>2, <1>3, <1>4, <1>6, <1>7 DEF NoUploader

LEMMA StageNoUploader ==
    ASSUME TypeInv, At("running"), Len(frames) = 1, NextStage
    PROVE  NoUploader \/ (stage = 13 /\ InStage /\ UploaderStarts)
<1>1. /\ stage \in 1 .. 14 /\ Top.proc = Stages[stage] /\ Top = frames[1]
      /\ Done = 15 /\ InStage
  BY RunsInStage, InStageAlone, StageNames
<1>2. stage' = stage + 1 /\ ControlTypeOK
  BY TypeOKParts DEF TypeInv, NextStage
<1>3. CASE stage = 14
  <2>1. frames' = <<>> /\ calls' = calls
    BY <1>1, <1>2, <1>3 DEF NextStage
  <2>2. ~Running("uploader")'
    BY <2>1 DEF Running
  <2>3. \A i \in 1 .. Len(frames') : FALSE
    BY <2>1, EmptySeq
  <2> QED BY <2>1, <2>2, <2>3 DEF NoUploader
<1>4. CASE stage \in 1 .. 13
  <2>1. stage' \in 1 .. 14 /\ stage' # 15
    BY <1>2, <1>4
  <2>2. frames' = <<Call(Stages[stage'])>> /\ Count(Stages[stage'])
    BY <1>1, <2>1 DEF NextStage
  <2>3. /\ Len(frames') = 1 /\ frames' # <<>>
        /\ frames'[1] = Call(Stages[stage'])
    BY <2>1, <2>2, CallIsFrame, OneCall
  <2>4. frames'[1].at = "running" /\ frames'[1].proc = Stages[stage']
    BY <2>3 DEF Call
  <2>5. Stages[stage'] = "uploader" <=> stage' = 14
    BY <2>1, StageNames
  <2>6. calls'["uploader"] = IF Stages[stage'] = "uploader"
                             THEN calls["uploader"] + 1 ELSE calls["uploader"]
    BY <1>2, <2>2, Counted
  <2>7. Running("uploader")' <=> Stages[stage'] = "uploader"
    BY <2>3, <2>4 DEF Running, Top
  <2>8. CASE stage = 13
    BY <1>1, <1>2, <2>5, <2>6, <2>7, <2>8 DEF UploaderStarts
  <2>9. CASE stage # 13
    <3>1. Stages[stage'] # "uploader"
      BY <1>1, <1>2, <2>5, <2>9
    <3>2. \A i \in 1 .. Len(frames') : frames'[i].proc # "uploader"
      <4>1. \A i \in 1 .. 1 : i = 1
        OBVIOUS
      <4> QED BY <2>3, <2>4, <3>1, <4>1
    <3> QED BY <2>6, <2>7, <3>1, <3>2 DEF NoUploader
  <2> QED BY <2>8, <2>9
<1> QED BY <1>1, <1>3, <1>4

LEMMA UploaderMoves ==
    ASSUME TypeInv, Next, ~Receive, ~Return, ~StartOver
    PROVE  NoUploader \/ ((Upload \/ (stage = 13 /\ InStage)) /\ UploaderStarts)
<1>1. CASE At("running") /\ Fails
  BY <1>1, MovesNoUploader DEF Fails, At
<1>2. CASE At("running") /\ Returns
  <2>1. CASE Len(frames) = 1 /\ NextStage
    BY <1>2, <2>1, StageNoUploader
  <2>2. CASE frames' = Pop /\ calls' = calls
    BY <1>2, <2>2, PopsNoUploader DEF At
  <2> QED BY <1>2, <2>1, <2>2 DEF Returns
<1>3. CASE DnsRestored \/ Skip
  BY <1>3, MovesNoUploader DEF DnsRestored, Skip, At
<1>4. CASE DoError
  BY <1>4, PopsNoUploader DEF DoError, At
<1>5. CASE RestoreDns
  <2>1. /\ frames # <<>> /\ calls' = calls
        /\ frames' = Append(Aside, Call("dnsupdater --restore"))
    BY <1>5, RestoreDnsPushes DEF RestoreDns, RestoresDns, At, TypeInv
  <2>2. /\ Aside \in Seq(Frame) /\ Len(Aside) = Len(frames)
        /\ \A i \in 1 .. Len(frames) - 1 : Aside[i] = frames[i]
        /\ Aside[Len(frames)].proc = Top.proc
    BY <2>1, PutAside, StackTypes DEF TypeInv, AsideTop, Frame
  <2> QED BY <2>1, <2>2, PushesCalls DEF Rescuers
<1>6. ASSUME NEW place \in {"archived", "uploaded"}, NEW p \in Rescuers,
             frames # <<>>, frames' = Append(MovesTo(place), Call(p))
      PROVE  /\ Running(p)'
             /\ p # "uploader" /\ calls'["uploader"] = calls["uploader"]
                    => NoUploader
  <2>1. /\ MovesTo(place) \in Seq(Frame) /\ Len(MovesTo(place)) = Len(frames)
        /\ \A i \in 1 .. Len(frames) - 1 : MovesTo(place)[i] = frames[i]
        /\ MovesTo(place)[Len(frames)] = [Top EXCEPT !.at = place]
    BY <1>6, Moved DEF TypeInv
  <2>2. MovesTo(place)[Len(frames)].proc = Top.proc
    BY <1>6, <2>1, StackTypes DEF TypeInv, Frame
  <2> QED BY <1>6, <2>1, <2>2, PushesCalls
<1>7. ControlTypeOK
  BY TypeOKParts DEF TypeInv
<1>8. CASE Archive
  <2>1. frames # <<>> /\ frames' = Append(MovesTo("archived"), Call("archiver"))
    BY <1>8 DEF Archive, Archives, At
  <2>2. calls'["uploader"] = calls["uploader"]
    BY <1>7, <1>8, Counted DEF Archive
  <2> QED BY <1>6, <2>1, <2>2 DEF Rescuers
<1>9. CASE Upload
  <2>1. frames # <<>> /\ frames' = Append(MovesTo("uploaded"), Call("uploader"))
    BY <1>9 DEF Upload, Uploads, At
  <2>2. calls'["uploader"] = calls["uploader"] + 1
    BY <1>7, <1>9, Counted DEF Upload
  <2> QED BY <1>6, <1>9, <2>1, <2>2 DEF Rescuers, UploaderStarts
<1> QED
  BY <1>1, <1>2, <1>3, <1>4, <1>5, <1>8, <1>9, StepKinds

(* A step of handle() that neither begins nor ends it.                       *)
LEMMA IdleReceives ==
    ASSUME TypeInv, Next, stage = 0
    PROVE  Receive
<1>1. frames = <<>> /\ Done = 15
  <2>1. stage \notin 1 .. 14
    OBVIOUS
  <2> QED BY <2>1, StageNames DEF TypeInv, StackInv
<1>2. ~Return
  BY <1>1 DEF Return
<1> QED
  BY <1>1, <1>2, StepKinds DEF At, RestoreDns, RestoresDns, DnsRestored,
     Archive, Archives, Upload, Uploads, Skip, DoError, Next, Works, Suffers,
     Dies, TooDeep, ChildSucceeds, Effect, CheckPasses, StartCapture, SetDns,
     ResetDns, RunTests, SaveCapture, SendResults, DoesNothing, Running,
     CheckFails, ChildFails, ChildFailsLate, ChildIsRefused, Updating,
     Capturing, CaptureNotStarted, CaptureNotRetrieved

LEMMA StaysInJob ==
    ASSUME TypeInv, Next, ~Receive, ~Return, ~StartOver
    PROVE  stage # 0 /\ stage' # 0 /\ job' = job /\ job \in Jobs
<1>1. stage # 0
  BY IdleReceives
<1>2. job \in Jobs /\ stage \in Nat
  BY <1>1 DEF TypeInv, StackInv, TypeOK
<1>3. Done = 15
  BY StageNames
<1>4. NextStage => stage' # 0 /\ job' = job
  BY <1>2 DEF NextStage
<1>5. DoError => stage' # 0 /\ job' = job
  BY <1>1, <1>3 DEF DoError
<1>6. (Fails \/ RestoreDns \/ DnsRestored \/ Archive \/ Upload \/ Skip)
        => stage' = stage /\ job' = job
  BY DEF Fails, RestoreDns, DnsRestored, Archive, Upload, Skip
<1>7. Returns => NextStage \/ (stage' = stage /\ job' = job)
  BY DEF Returns
<1> QED BY <1>1, <1>2, <1>4, <1>5, <1>6, <1>7, StepKinds

(* sruploader is started when it has not been started before.                *)
LEMMA UploaderStartsOnce ==
    ASSUME TypeInv, OnceInv, Next, ~Receive, ~Return, ~StartOver
    PROVE  \/ NoUploader
           \/ /\ calls["uploader"] = 0 /\ calls'["uploader"] = 1
              /\ Running("uploader")'
<1>1. stage # 0 /\ UploadFlag /\ FlagsOfStage
  BY StaysInJob DEF OnceInv, DutiesInv
<1>2. Upload => calls["uploader"] = 0
  BY <1>1 DEF Upload, Uploads, UploadFlag
<1>3. stage = 13 /\ InStage => calls["uploader"] = 0
  BY <1>1 DEF FlagsOfStage, UploadFlag
<1>4. \A n : n = 0 => n + 1 = 1
  OBVIOUS
<1> QED BY <1>2, <1>3, <1>4, UploaderMoves DEF UploaderStarts

(* Whose child runs, has counted it: also after a step.                      *)
LEMMA CountedStays ==
    ASSUME TypeInv, OnceInv, UploaderCounted, Next
    PROVE  UploaderCounted'
<1>1. CASE Receive
  <2>1. frames' = <<Call(Stages[1])>>
    BY <1>1 DEF Receive
  <2>2. Len(frames') = 1 /\ frames'[1].proc = Stages[1]
    BY <2>1 DEF Call
  <2> Stages[1] # "uploader"
    BY DEF Stages
  <2>3. \A i \in 1 .. 1 : i = 1
    OBVIOUS
  <2> QED BY <2>2, <2>3 DEF UploaderCounted
<1>2. CASE Return
  <2>1. frames' = frames /\ calls' = calls
    BY <1>2 DEF Return
  <2> QED BY <2>1 DEF UploaderCounted
<1>3. CASE StartOver
  <2>1. \A i \in 1 .. Len(frames') : FALSE
    BY <1>3, EmptySeq DEF StartOver
  <2> QED BY <2>1 DEF UploaderCounted
<1>4. CASE ~Receive /\ ~Return /\ ~StartOver
  <2>1. CASE NoUploader
    BY <2>1 DEF NoUploader, UploaderCounted
  <2>2. CASE calls'["uploader"] = 1
    BY <2>2 DEF UploaderCounted
  <2> QED BY <1>4, <2>1, <2>2, UploaderStartsOnce
<1> QED BY <1>1, <1>2, <1>3, <1>4

LEMMA CountedHolds == Spec => []UploaderCounted
<1>1. Init => UploaderCounted
  <2> SUFFICES ASSUME Init PROVE UploaderCounted
    OBVIOUS
  <2>1. \A i \in 1 .. Len(frames) : FALSE
    BY EmptySeq DEF Init
  <2> QED BY <2>1 DEF UploaderCounted
<1>2. TypeInv /\ OnceInv /\ UploaderCounted /\ [Next]_vars => UploaderCounted'
  <2>1. UNCHANGED vars /\ UploaderCounted => UploaderCounted'
    BY DEF vars, UploaderCounted
  <2> QED BY <2>1, CountedStays
<1> QED BY <1>1, <1>2, TypeInvHolds, OnceInvHolds, PTL DEF Spec

(* The results leave the machine by sruploader alone, and it ends then.      *)
LEMMA UploaderSends ==
    ASSUME TypeInv, Next
    PROVE  sent' = sent \/ SendResults
BY WorldSteps DEF world, StartCapture, SetDns, ResetDns, RunTests, SaveCapture,
   CaptureNotStarted, CaptureNotRetrieved


(* The phase of the handler.                                                 *)
LEMMA Phases ==
    /\ stage = 0 => Phase = "idle"
    /\ stage # 0 /\ UploaderEnded => Phase = "finished"
    /\ stage # 0 /\ ~UploaderEnded => Phase = "running"
BY DEF Phase

LEMMA PhasesNext ==
    /\ stage' = 0 => Phase' = "idle"
    /\ stage' # 0 /\ UploaderEnded' => Phase' = "finished"
    /\ stage' # 0 /\ ~UploaderEnded' => Phase' = "running"
BY DEF Phase

(* The end of sruploader is an action of the handler, other ends are not.    *)
LEMMA HandlerWorks ==
    ASSUME TypeInv, TypeInv', OnceInv, UploaderCounted, Next,
           ~Receive, ~Return, ~StartOver
    PROVE  \/ Handler!Upload \/ Handler!FailToUpload
           \/ UNCHANGED Handler!handling
<1>1. stage # 0 /\ stage' # 0 /\ job' = job /\ job \in Jobs
  BY StaysInJob
<1>2. calls["uploader"] \in Nat /\ calls'["uploader"] \in Nat
  BY DEF TypeInv, TypeOK
<1>3. CASE Running("uploader")
  <2>1. calls["uploader"] # 0
    <3>1. frames # <<>> /\ Len(frames) \in Nat \ {0} /\ Top.proc = "uploader"
      BY <1>3, EmptySeq DEF Running, TypeInv, TypeOK
    <3>2. Len(frames) \in 1 .. Len(frames)
      BY <3>1
    <3> QED BY <3>1, <3>2 DEF UploaderCounted, Top
  <2>2. calls'["uploader"] = calls["uploader"] /\ ~Running("uploader")'
    BY <2>1, UploaderStartsOnce DEF NoUploader
  <2>3. ~UploaderEnded
    BY <1>3, UploaderEnds
  <2>4. UploaderEnded'
    BY <1>2, <2>1, <2>2, UploaderEndsNext
  <2>5. Phase = "running" /\ Phase' = "finished"
    BY <1>1, <2>3, <2>4, Phases, PhasesNext
  <2>6. sent' = sent => Handler!FailToUpload
    BY <1>1, <2>5 DEF Handler!FailToUpload
  <2>7. SendResults => Handler!Upload
    BY <1>1, <2>5 DEF Handler!Upload, SendResults
  <2> QED BY <2>6, <2>7, UploaderSends
<1>4. CASE ~Running("uploader")
  <2>1. sent' = sent
    BY <1>4, UploaderSends DEF SendResults
  <2>2. UploaderEnded' <=> UploaderEnded
    <3>1. CASE NoUploader
      <4>1. calls'["uploader"] = calls["uploader"] /\ ~Running("uploader")'
        BY <3>1 DEF NoUploader
      <4> QED BY <1>4, <4>1, UploaderEnds, UploaderEndsNext
    <3>2. CASE calls["uploader"] = 0 /\ Running("uploader")'
      <4>1. ~UploaderEnded
        BY <3>2, UploaderEnds
      <4>2. ~UploaderEnded'
        BY <3>2, UploaderEndsNext
      <4> QED BY <4>1, <4>2
    <3> QED BY <3>1, <3>2, UploaderStartsOnce
  <2>3. Phase' = Phase
    BY <1>1, <2>2, Phases, PhasesNext
  <2> QED BY <1>1, <2>1, <2>3 DEF Handler!handling
<1> QED BY <1>3, <1>4

LEMMA HandlerSteps ==
    ASSUME TypeInv, TypeInv', OnceInv, UploaderCounted, [Next]_vars
    PROVE  [Handler!Next]_(Handler!handling)
<1>1. CASE Receive
  <2>1. calls'["uploader"] = 0
    BY <1>1 DEF Receive, NoCalls
  <2>2. ~UploaderEnded'
    BY <2>1, UploaderEndsNext
  <2>3. /\ stage = 0 /\ stage' = 1 /\ job \in Jobs
        /\ job' = job /\ sent' = sent
    BY <1>1 DEF Receive, world
  <2>4. Phase = "idle" /\ Phase' = "running"
    BY <2>2, <2>3, Phases, PhasesNext
  <2> QED BY <2>3, <2>4 DEF Handler!Next, Handler!Take
<1>2. CASE Return
  <2>1. /\ stage = Done /\ stage' = 0 /\ job' = job + 1 /\ sent' = sent
    BY <1>2 DEF Return, world
  <2>2. stage # 0 /\ frames = <<>>
    <3>1. stage = 15
      BY <2>1, StageNames
    <3>2. stage # 0 /\ stage \notin 1 .. 14
      BY <3>1
    <3> QED BY <3>2 DEF TypeInv, StackInv
  <2>3. calls["uploader"] = 1
    BY <2>1 DEF OnceInv, ArchivedAndUploadedOnce
  <2>4. UploaderEnded
    BY <2>2, <2>3, UploaderEnds DEF Running
  <2>5. Phase = "finished" /\ Phase' = "idle"
    BY <2>1, <2>2, <2>4, Phases, PhasesNext
  <2> QED BY <2>1, <2>5 DEF Handler!Next, Handler!Return
<1>3. CASE Next /\ StartOver
  <2>1. stage # 0
    <3>1. ~Receive
      BY <1>3 DEF Receive, StartOver
    <3> QED BY <1>3, <3>1, IdleReceives
  <2>2. stage' = 0 /\ job' = job /\ sent' = sent
    BY <1>3 DEF StartOver, world
  <2>3. Phase \in {"finished", "running"} /\ Phase' = "idle"
    BY <2>1, <2>2, Phases, PhasesNext
  <2>4. Phase # "idle"
    BY <2>3
  <2> QED BY <2>2, <2>3, <2>4 DEF Handler!Next, Handler!Fail
<1>4. CASE Next /\ ~Receive /\ ~Return /\ ~StartOver
  BY <1>4, HandlerWorks DEF Handler!Next
<1>5. CASE UNCHANGED vars
  <2>1. Phase' = Phase
    BY <1>5 DEF vars, Phase, UploaderEnded
  <2> QED BY <1>5, <2>1 DEF vars, world, Handler!handling
<1> QED BY <1>1, <1>2, <1>3, <1>4, <1>5

(* handle() takes a job, sends its results once or gives up on them, and     *)
(* then only returns and takes the next job; or it ends early, and takes the *)
(* same job again: whatever its children do and whichever of them fail.      *)
THEOREM MachineHandlesJobs == Spec => Handler!Safety
<1>1. Init => Handler!Init
  <2> SUFFICES ASSUME Init PROVE Handler!Init
    OBVIOUS
  <2>1. stage = 0 /\ job = 1 /\ sent = [j \in Jobs |-> 0]
    BY DEF Init
  <2> QED BY <2>1, Phases DEF Handler!Init
<1>2. TypeInv /\ TypeInv' /\ OnceInv /\ UploaderCounted /\ [Next]_vars
        => [Handler!Next]_(Handler!handling)
  BY HandlerSteps
<1> QED
  BY <1>1, <1>2, TypeInvHolds, OnceInvHolds, CountedHolds, PTL
     DEF Spec, Handler!Safety
=============================================================================
