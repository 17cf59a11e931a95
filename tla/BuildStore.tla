----------------------------- MODULE BuildStore -----------------------------
(***************************************************************************)
(* srcloner as the keeper of the directory that nginx serves builds from,   *)
(* with the runs that srmaster has it fetch, one at a time, and the clients  *)
(* that download from it (srdownloader).                                    *)
(*                                                                         *)
(* The directory of a run has one directory for each platform, and that     *)
(* has two files.  A new platform directory makes the run's directory the    *)
(* most recently modified; writing a file does not, nor does a second clone  *)
(* into platform directories that exist.  The least recently modified ones   *)
(* beyond keep are removed at the end of a successful clone, and then only.  *)
(*                                                                         *)
(* The runs are pushes to try.  Its file server publishes the directory of   *)
(* a platform first and the files in it later.                              *)
(***************************************************************************)
EXTENDS Enqueuer

CONSTANTS
    OPERATING_SYSTEMS,  \* "linux", "mac", "windows"
    AskedSystems,       \* the operating systems a push names
    keep                \* [cloner] keep

ASSUME StoreAssumption ==
    /\ keep \in Nat
    /\ OPERATING_SYSTEMS \subseteq {"linux", "mac", "windows"}
    /\ AskedSystems \in [Requests -> (SUBSET OPERATING_SYSTEMS) \ {{}}]

VARIABLES
    ftp,          \* what try has published for a run and a system
    directories,  \* the runs with a directory, least recently modified first
    platforms,    \* platforms[r]: the directories in that of r
    files,        \* files[r][o][f]: a file of build o in that of r
    phase,        \* of srmaster: "idle", "cloning", "cloned"
    steps,        \* what the running srcloner has still to do
    unclean,      \* srcloners that began to write, and did not clean up
    dispatched,   \* runs that clients have been given jobs of
    evicted,      \* runs whose directory was removed
    downloading,  \* what a client downloads, and the files it has got
    missed        \* runs that a client found no builds of

ftpVars == <<ftp>>
storeVars == <<directories, platforms, files, evicted>>
clonerVars == <<phase, steps, unclean, dispatched>>
clientVars == <<downloading, missed>>

Names == {"firefox", "tests"}
Contents == {"none", "archive", "error page"}
ListOrder == <<"linux", "mac", "windows">>

NoFiles == [o \in OPERATING_SYSTEMS |-> [f \in Names |-> "none"]]
NoDownload == [run |-> "none", build |-> "none", got |-> {}]

StoreTypeOK ==
    /\ ftp \in [Requests -> [OPERATING_SYSTEMS ->
                    {"nothing", "directory", "files"}]]
    /\ incoming \in Seq(RunMessage)
    /\ directories \in Seq(Requests) /\ IsInjective(directories)
    /\ platforms \in [Requests -> SUBSET OPERATING_SYSTEMS]
    /\ files \in [Requests -> [OPERATING_SYSTEMS -> [Names -> Contents]]]
    /\ phase \in {"idle", "cloning", "cloned"}
    /\ phase # "idle" => incoming # <<>>
    /\ unclean \in 0 .. faults
    /\ dispatched \subseteq Requests
    /\ evicted \subseteq Requests
    /\ \/ downloading = NoDownload
       \/ downloading \in [run : dispatched, build : OPERATING_SYSTEMS,
                           got : SUBSET Names]
    /\ missed \subseteq dispatched

StoreInit ==
    /\ ftp = [r \in Requests |-> [o \in OPERATING_SYSTEMS |-> "nothing"]]
    /\ directories = <<>>
    /\ platforms = [r \in Requests |-> {}]
    /\ files = [r \in Requests |-> NoFiles]
    /\ phase = "idle"
    /\ steps = <<>>
    /\ unclean = 0
    /\ dispatched = {}
    /\ evicted = {}
    /\ downloading = NoDownload
    /\ missed = {}

(* The run that srmaster is handling.                                        *)
current == Head(incoming).srid
-----------------------------------------------------------------------------
(* The file server of try, for a build that srcloner will look for.          *)
Publishes(r, o) ==
    /\ r \in asked /\ o \in AskedSystems[r]
    /\ ftp[r][o] # "files"
    /\ ftp' = [ftp EXCEPT ![r][o] =
                  IF @ = "nothing" THEN "directory" ELSE "files"]
    /\ UNCHANGED <<incoming, storeVars, clonerVars, clientVars>>
-----------------------------------------------------------------------------
(* run: some build is not listed, or the listing failed and is empty.  The   *)
(* run is queued again by srdeferrer, or cancelled after its last attempt.   *)
Defers ==
    /\ phase = "idle" /\ incoming # <<>>
    /\ incoming' =
        IF Head(incoming).attempt < MaxAttempts
        THEN Append(Tail(incoming),
                    [Head(incoming) EXCEPT !.attempt = @ + 1])
        ELSE Tail(incoming)
    /\ UNCHANGED <<ftpVars, storeVars, clonerVars, clientVars>>

Asked == SelectSeq(ListOrder, LAMBDA o : o \in AskedSystems[current])
Listed == \A o \in AskedSystems[current] : ftp[current][o] # "nothing"
DistFiles == ftp[current][Head(Asked)] = "files"

(* run: every build is listed, but no files in the directory of the first,   *)
(* or that listing failed, or it has no checksums (_get_prefix).             *)
Drops ==
    /\ phase = "idle" /\ incoming # <<>>
    /\ Listed
    /\ incoming' = Tail(incoming)
    /\ UNCHANGED <<ftpVars, storeVars, clonerVars, clientVars>>

(* Faulty: leaves the old place of r in the order.                           *)
TouchTwice(r) == Append(directories, r)

(* The directory of r becomes the most recently modified.                    *)
Place(r) == CHOOSE i \in DOMAIN directories : directories[i] = r
Touch(r) ==
    Append(IF r \in ToSet(directories) THEN RemoveAt(directories, Place(r))
           ELSE directories, r)

StepsFor(o) ==
    IF o \in AskedSystems[current]
    THEN <<[build |-> o, file |-> "directory"],
           [build |-> o, file |-> "firefox"],
           [build |-> o, file |-> "tests"]>>
    ELSE <<>>

Steps == StepsFor("mac") \o StepsFor("linux") \o StepsFor("windows")

(* Faulty: empties a directory that is there.                                *)
BeginsAfresh ==
    /\ phase = "idle" /\ incoming # <<>>
    /\ Listed /\ DistFiles
    /\ phase' = "cloning"
    /\ steps' = Steps
    /\ directories' = Touch(current)
    /\ platforms' = [platforms EXCEPT ![current] = {}]
    /\ files' = [files EXCEPT ![current] = NoFiles]
    /\ UNCHANGED <<ftpVars, incoming, evicted>>
    /\ UNCHANGED <<unclean, dispatched, clientVars>>

(* run: makes the directory of the run, and goes on to clone each build.     *)
Begins ==
    /\ phase = "idle" /\ incoming # <<>>
    /\ Listed /\ DistFiles
    /\ phase' = "cloning"
    /\ steps' = Steps
    /\ directories' = IF current \in ToSet(directories) THEN directories
                      ELSE Touch(current)
    /\ UNCHANGED <<ftpVars, incoming, platforms, files, evicted>>
    /\ UNCHANGED <<unclean, dispatched, clientVars>>

Step == Head(steps)

(* _ensure_outdir                                                            *)
EnsuresOutdir ==
    /\ phase = "cloning" /\ steps # <<>> /\ Step.file = "directory"
    /\ steps' = Tail(steps)
    /\ platforms' = [platforms EXCEPT ![current] = @ \union {Step.build}]
    /\ directories' = IF Step.build \in platforms[current] THEN directories
                      ELSE Touch(current)
    /\ UNCHANGED <<ftpVars, incoming, files, evicted>>
    /\ UNCHANGED <<phase, unclean, dispatched, clientVars>>

(* _dl_to_file: whatever the server answers becomes the file.                *)
Downloads ==
    /\ phase = "cloning" /\ steps # <<>> /\ Step.file # "directory"
    /\ steps' = Tail(steps)
    /\ files' = [files EXCEPT ![current][Step.build][Step.file] =
                    IF ftp[current][Step.build] = "files" THEN "archive"
                    ELSE "error page"]
    /\ UNCHANGED <<ftpVars, incoming, directories, platforms, evicted>>
    /\ UNCHANGED <<phase, unclean, dispatched, clientVars>>

(* Faulty: sorts the newest first.                                           *)
KeepsOldest ==
    IF keep = 0 \/ Len(directories) <= keep THEN directories
    ELSE SubSeq(directories, 1, keep)

(* Faulty: off by one.                                                       *)
KeepsOneMore ==
    IF keep = 0 \/ Len(directories) <= keep + 1 THEN directories
    ELSE SubSeq(directories, Len(directories) - keep, Len(directories))

(* What is left when times[:-keep], which is empty when keep is 0, is gone.  *)
Kept ==
    IF keep = 0 \/ Len(directories) <= keep THEN directories
    ELSE SubSeq(directories, Len(directories) - keep + 1, Len(directories))

(* _cleanup_old_directories, the last thing srcloner does.                   *)
CleansUp ==
    /\ phase = "cloning" /\ steps = <<>>
    /\ phase' = "cloned"
    /\ directories' = Kept
    /\ LET gone == ToSet(directories) \ ToSet(Kept)
       IN /\ platforms' = [r \in Requests |->
                              IF r \in gone THEN {} ELSE platforms[r]]
          /\ files' = [r \in Requests |->
                          IF r \in gone THEN NoFiles ELSE files[r]]
          /\ evicted' = evicted \union gone
    /\ UNCHANGED <<ftpVars, incoming, steps, unclean>>
    /\ UNCHANGED <<dispatched, clientVars>>

(* An exception ends srcloner without a deferral, and srmaster drops the run; *)
(* nothing is cleaned up.                                                    *)
Fails ==
    /\ phase = "cloning"
    /\ Fault
    /\ unclean' = unclean + 1
    /\ phase' = "idle"
    /\ steps' = <<>>
    /\ incoming' = Tail(incoming)
    /\ UNCHANGED <<ftpVars, storeVars, dispatched, clientVars>>

(* srmaster and its child die, or its connection closes; the message stays.  *)
Redelivered ==
    /\ phase # "idle"
    /\ Fault
    /\ unclean' = IF phase = "cloning" THEN unclean + 1 ELSE unclean
    /\ phase' = "idle"
    /\ steps' = <<>>
    /\ UNCHANGED <<ftpVars, incoming, storeVars, dispatched, clientVars>>

(* srcloner exited cleanly: srmaster sends the run on.                       *)
Dispatches ==
    /\ phase = "cloned"
    /\ phase' = "idle"
    /\ dispatched' = dispatched \union {current}
    /\ incoming' = Tail(incoming)
    /\ UNCHANGED <<ftpVars, storeVars, steps, unclean, clientVars>>
-----------------------------------------------------------------------------
(* A client has a job of a dispatched run, perhaps not for the first time.   *)
(* Clients only read, so one download at a time shows what any may find.     *)
TakesJob(r, o) ==
    /\ r \in dispatched /\ o \in AskedSystems[r]
    /\ downloading = NoDownload
    /\ downloading' = [run |-> r, build |-> o, got |-> {}]
    /\ UNCHANGED <<ftpVars, incoming, storeVars, clonerVars, missed>>

(* srdownloader.run: firefox, then the tests.  An answer other than 200 is an *)
(* exception, and the job has failed.                                        *)
Wanted == IF downloading.got = {} THEN "firefox" ELSE "tests"
Served == files[downloading.run][downloading.build][Wanted] # "none"

ClientDownloads ==
    /\ downloading # NoDownload /\ Served
    /\ downloading' = IF Wanted = "tests" THEN NoDownload
                      ELSE [downloading EXCEPT !.got = {Wanted}]
    /\ UNCHANGED <<ftpVars, incoming, storeVars, clonerVars, missed>>

ClientFindsNothing ==
    /\ downloading # NoDownload /\ ~Served
    /\ missed' = missed \union {downloading.run}
    /\ downloading' = NoDownload
    /\ UNCHANGED <<ftpVars, incoming, storeVars, clonerVars>>

StoreStep ==
    \/ \E r \in Requests, o \in OPERATING_SYSTEMS : Publishes(r, o)
    \/ Defers \/ Drops \/ Begins
    \/ EnsuresOutdir \/ Downloads \/ CleansUp \/ Dispatches
    \/ \E r \in Requests, o \in OPERATING_SYSTEMS : TakesJob(r, o)
    \/ ClientDownloads \/ ClientFindsNothing
StoreFault == Fails \/ Redelivered
=============================================================================
