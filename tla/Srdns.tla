------------------------------- MODULE Srdns -------------------------------
(***************************************************************************)
(* srdns: the daemon that saves the DNS servers of the client and switches  *)
(* between those and the servers of a netconfig.  On linux daemonize() runs *)
(* it, on a mac launchd does, which starts it again whenever it ends.  On   *)
(* windows it is a service of its own, which saves nothing: it switches     *)
(* between two interfaces.                                                  *)
(***************************************************************************)
EXTENDS Daemon

CONSTANT MaxRequests  \* bound: how many requests srdnsupdater makes

ASSUME SrdnsAssumption == MaxRequests \in Nat

VARIABLES
    platform,   \* "linux", "mac" or "windows"
    at,         \* at[p]: where srdns of process p is
    servers,    \* what resolv.conf, or the network setup, has
    backup,     \* what the backup file has
    port,       \* who listens on port 63250, or NoProc
    timeWait,   \* connections that srdns closed keep the port from being bound
    request,    \* what srdnsupdater asks for, or "none"
    answered,   \* the last request that was answered "ok", until the next
    requests,   \* how many there were
    unsaved,    \* some process ended before it had made the backup
    broken      \* the last switch was cut short, or a tool failed in it

srdns == <<at, servers, backup, port, timeWait>>
client == <<request, answered, requests>>
ghosts == <<unsaved, broken>>
vars == <<daemon, script, signals, platform, srdns, client, ghosts>>

(* "original" servers, those of the "test" network, or neither: a file       *)
(* written to half, one interface switched and not the other.                *)
Contents == {"original", "test", "partial"}

TypeOK ==
    /\ DaemonTypeOK
    /\ platform \in {"linux", "mac", "windows"}
    /\ at \in [Procs -> {"saving", "copying", "filling", "binding",
                         "serving", "handling", "writing", "answering"}]
    /\ servers \in Contents
    /\ backup \in Contents \union {"none"}
    /\ port \in Procs \union {NoProc}
    /\ timeWait \in BOOLEAN
    /\ request \in {"none", "set", "reset"}
    /\ answered \in {"none", "set", "reset"}
    /\ requests \in 0 .. MaxRequests
    /\ unsaved \in BOOLEAN
    /\ broken \in BOOLEAN

Init ==
    /\ DaemonInit
    /\ platform \in {"linux", "mac", "windows"}
    /\ at = [p \in Procs |-> "saving"]
    /\ servers = "original"
    /\ backup = "none"
    /\ port = NoProc
    /\ timeWait = FALSE
    /\ request = "none"
    /\ answered = "none"
    /\ requests = 0
    /\ unsaved = FALSE
    /\ broken = FALSE

At(p, place) == pc[p] = "running" /\ at[p] = place
Moves(p, place) == at' = [at EXCEPT ![p] = place]

(* What the system does when p is gone.                                      *)
Closes(p) ==
    /\ Moves(p, "saving")
    /\ port' = IF port = p THEN NoProc ELSE port
    /\ request' = IF port = p THEN "none" ELSE request
    /\ timeWait' = (timeWait \/ (port = p /\ request # "none"))
    /\ UNCHANGED <<platform, servers, backup, answered, requests>>
-----------------------------------------------------------------------------
(* Faulty: saves the servers of now at every start.                          *)
SaveAlways(p) ==
    /\ At(p, "saving")
    /\ backup' = servers
    /\ Moves(p, "binding")
    /\ UNCHANGED <<daemon, script, signals, platform, servers, port, timeWait,
                   client, ghosts>>

(* save_dns(): only if there is no backup.  A mac that does not find its main *)
(* interface goes on without one; windows never has one.                     *)
Save(p) ==
    /\ At(p, "saving")
    /\ \/ /\ platform # "windows" /\ backup = "none"
          /\ Moves(p, "copying")
          /\ UNCHANGED unsaved
       \/ /\ platform = "windows" \/ backup # "none"
          /\ Moves(p, "binding")
          /\ UNCHANGED unsaved
       \/ /\ platform = "mac" /\ backup = "none"
          /\ Moves(p, "binding")
          /\ unsaved' = TRUE
    /\ UNCHANGED <<daemon, script, signals, platform, servers, backup, port,
                   timeWait, client, broken>>

(* Faulty: does not wait for the copy.                                       *)
BeginCopyAndServe(p) ==
    /\ At(p, "copying")
    /\ backup' = "partial"
    /\ Moves(p, "binding")
    /\ UNCHANGED <<daemon, script, signals, platform, servers, port,
                   timeWait, client, ghosts>>

(* The copy is made in place.                                                *)
BeginCopy(p) ==
    /\ At(p, "copying")
    /\ backup' = "partial"
    /\ Moves(p, "filling")
    /\ UNCHANGED <<daemon, script, signals, platform, servers, port,
                   timeWait, client, ghosts>>

EndCopy(p) ==
    /\ At(p, "filling")
    /\ backup' = servers
    /\ Moves(p, "binding")
    /\ UNCHANGED <<daemon, script, signals, platform, servers, port,
                   timeWait, client, ghosts>>

(* Windows binds a port however its last connections were closed.            *)
PortIsFree == port = NoProc /\ (timeWait => platform = "windows")

(* TCPServer() binds the port without SO_REUSEADDR, or raises.               *)
Bind(p) ==
    /\ At(p, "binding")
    /\ PortIsFree
    /\ port' = p
    /\ Moves(p, "serving")
    /\ UNCHANGED <<daemon, script, signals, platform, servers, backup,
                   timeWait, client, ghosts>>

BindRaises(p) ==
    /\ At(p, "binding")
    /\ ~PortIsFree
    /\ Raises(p)
    /\ Closes(p)
    /\ UNCHANGED ghosts

(* A minute after the last connection.                                       *)
TimeWaitEnds ==
    /\ timeWait
    /\ timeWait' = FALSE
    /\ UNCHANGED <<daemon, script, signals, platform, at, servers, backup,
                   port, client, ghosts>>
-----------------------------------------------------------------------------
(* srdnsupdater connects.                                                    *)
Ask ==
    /\ request = "none"
    /\ requests < MaxRequests
    /\ requests' = requests + 1
    /\ answered' = "none"
    /\ request' \in {"set", "reset"}
    /\ UNCHANGED <<daemon, script, signals, platform, srdns, ghosts>>

(* Faulty: tries again.                                                      *)
RefusedAgain ==
    /\ request # "none"
    /\ port = NoProc
    /\ UNCHANGED vars

(* Nobody listens.                                                           *)
Refused ==
    /\ request # "none"
    /\ port = NoProc
    /\ request' = "none"
    /\ UNCHANGED <<daemon, script, signals, platform, srdns, answered,
                   requests, ghosts>>

Accept(p) ==
    /\ At(p, "serving")
    /\ request # "none"
    /\ Moves(p, "handling")
    /\ UNCHANGED <<daemon, script, signals, platform, servers, backup, port,
                   timeWait, client, ghosts>>

(* Linux opens resolv.conf for writing, and thus empties it.  A backup to    *)
(* restore is there, whole or not: without one srdns does not serve.         *)
Truncate(p) ==
    /\ At(p, "handling")
    /\ platform = "linux"
    /\ servers' = "partial"
    /\ Moves(p, "writing")
    /\ UNCHANGED <<daemon, script, signals, platform, backup, port, timeWait,
                   client, ghosts>>

Requested ==
    CASE request = "set" -> "test"
      [] request = "reset" /\ platform = "windows" -> "original"
      [] OTHER -> backup

Write(p) ==
    /\ At(p, "writing")
    /\ platform = "linux"
    /\ servers' = Requested
    /\ broken' = FALSE
    /\ Moves(p, "answering")
    /\ UNCHANGED <<daemon, script, signals, platform, backup, port, timeWait,
                   client, unsaved>>

(* Faulty: does not look whether there is a backup.                          *)
ConfigureAnyway(p) ==
    /\ At(p, "handling")
    /\ platform = "mac"
    /\ servers' = Requested
    /\ Moves(p, "answering")
    /\ UNCHANGED <<daemon, script, signals, platform, backup, port, timeWait,
                   client, ghosts>>

(* networksetup changes all at once, or fails, and nobody looks; without a   *)
(* backup there is no change.                                                *)
Configure(p) ==
    /\ At(p, "handling")
    /\ platform = "mac"
    /\ broken' \in BOOLEAN
    /\ servers' = IF ~broken' /\ (request = "set"
                                 \/ backup \in {"original", "test"})
                  THEN Requested ELSE servers
    /\ Moves(p, "answering")
    /\ UNCHANGED <<daemon, script, signals, platform, backup, port, timeWait,
                   client, unsaved>>

(* setDns() and resetDns(): windows disables one interface or its servers,   *)
(* then enables the other.  Nobody looks whether netsh fails in that.        *)
SwitchOff(p) ==
    /\ At(p, "handling")
    /\ platform = "windows"
    /\ broken' \in BOOLEAN
    /\ servers' = IF broken' \/ servers = Requested THEN servers ELSE "partial"
    /\ Moves(p, "writing")
    /\ UNCHANGED <<daemon, script, signals, platform, backup, port, timeWait,
                   client, unsaved>>

SwitchOn(p) ==
    /\ At(p, "writing")
    /\ platform = "windows"
    /\ \/ ~broken /\ servers' = Requested /\ UNCHANGED broken
       \/ servers' \in {servers, "partial", Requested} /\ broken' = TRUE
    /\ Moves(p, "answering")
    /\ UNCHANGED <<daemon, script, signals, platform, backup, port, timeWait,
                   client, unsaved>>

Answer(p) ==
    /\ At(p, "answering")
    /\ Moves(p, "serving")
    /\ answered' = request
    /\ request' = "none"
    /\ timeWait' = TRUE
    /\ UNCHANGED <<daemon, script, signals, platform, servers, backup, port,
                   requests, ghosts>>
-----------------------------------------------------------------------------
(* A SIGTERM while it serves nobody.                                         *)
Stopped(p) ==
    /\ at[p] \in {"saving", "copying", "filling", "binding", "serving"}
    /\ platform = "linux"
    /\ daemon_sig(p)
    /\ Leaves(p)
    /\ unsaved' = (unsaved \/ at[p] = "filling")
    /\ UNCHANGED <<platform, srdns, client, broken>>

Busy(p) == at[p] \in {"handling", "writing", "answering"}

(* Faulty: answers "ok" in any case.                                         *)
SwallowsAndAnswers(p) ==
    /\ Busy(p)
    /\ platform = "linux"
    /\ daemon_sig(p)
    /\ Moves(p, "serving")
    /\ answered' = request
    /\ request' = "none"
    /\ timeWait' = TRUE
    /\ UNCHANGED <<pc, platform, servers, backup, port, requests, ghosts>>

(* While it handles a request, whatever is raised is caught by               *)
(* TCPServer._handle_request_noblock, which closes the connection and goes   *)
(* on: SystemExit as well.                                                   *)
Swallows(p) ==
    /\ Busy(p)
    /\ platform = "linux"
    /\ daemon_sig(p)
    /\ Moves(p, "serving")
    /\ request' = "none"
    /\ timeWait' = TRUE
    /\ broken' = (broken \/ at[p] = "writing")
    /\ UNCHANGED <<pc, platform, servers, backup, port, answered, requests,
                   unsaved>>

(* Nor does srdns end when a handler raises: a mac has no main interface to  *)
(* name to networksetup, a tool does not start, the disk is full.  Nobody    *)
(* gets an answer.  The service of windows would end (IsKilled).             *)
HandlerRaises(p) ==
    /\ platform # "windows"
    /\ pc[p] = "running" /\ Busy(p)
    /\ Moves(p, "serving")
    /\ request' = "none"
    /\ timeWait' = TRUE
    /\ broken' = (broken \/ at[p] = "writing")
    /\ UNCHANGED <<daemon, script, signals, platform, servers, backup, port,
                   answered, requests, unsaved>>

(* Faulty: ends in the middle of a request.                                  *)
ServiceEndsAtOnce(p) ==
    /\ platform = "windows"
    /\ pc[p] = "running" /\ at[p] # "binding"
    /\ p \in term
    /\ term' = term \ {p}
    /\ Leaves(p)
    /\ UNCHANGED <<file, pidfile, content, script, signalled, overlapped,
                   platform, srdns, client, ghosts>>

(* svcMain() looks whether it is to stop before it accepts.                  *)
ServiceEnds(p) ==
    /\ platform = "windows"
    /\ At(p, "serving")
    /\ p \in term
    /\ term' = term \ {p}
    /\ Leaves(p)
    /\ UNCHANGED <<file, pidfile, content, script, signalled, overlapped,
                   platform, srdns, client, ghosts>>

Ends(p) == Exits(p) /\ Closes(p) /\ UNCHANGED ghosts

IsKilled(p) ==
    /\ Dies(p)
    /\ Closes(p)
    /\ unsaved' = (unsaved \/ At(p, "filling"))
    /\ broken' = (broken \/ At(p, "writing"))

(* launchd and the service manager of windows know neither fork nor pid      *)
(* file.  OnStop() waits a minute, and its process may last longer.          *)
Launches(p) ==
    /\ platform \in {"mac", "windows"}
    /\ IsNext(p)
    /\ \A q \in Procs : Alive(q) => q \in signalled
    /\ Goes(p, "running")
    /\ overlapped' = IF \E q \in Procs : Alive(q)
                     THEN overlapped \union {p} ELSE overlapped
    /\ UNCHANGED <<file, pidfile, content, script, term, signalled, platform,
                   srdns, client, ghosts>>

OnStop(p) ==
    /\ platform = "windows"
    /\ stops < MaxStops
    /\ pc[p] = "running" /\ p \notin signalled
    /\ stops' = stops + 1
    /\ term' = term \union {p}
    /\ signalled' = signalled \union {p}
    /\ UNCHANGED <<daemon, target, overlapped, platform, srdns, client, ghosts>>

Starts(p) ==
    /\ platform = "linux"
    /\ Start(p)
    /\ UNCHANGED <<platform, srdns, client, ghosts>>

Stops ==
    /\ ReadPid \/ Kill
    /\ UNCHANGED <<platform, srdns, client, ghosts>>

Daemonizes(p) ==
    /\ TakeLock(p) \/ WritePid(p) \/ SetHandler(p) \/ DefaultTerm(p)
    /\ UNCHANGED <<platform, srdns, client, ghosts>>

Serves(p) ==
    \/ Save(p) \/ BeginCopy(p) \/ EndCopy(p) \/ Bind(p) \/ BindRaises(p)
    \/ Accept(p) \/ Truncate(p) \/ Write(p) \/ Configure(p)
    \/ SwitchOff(p) \/ SwitchOn(p) \/ Answer(p)

Works(p) ==
    \/ Daemonizes(p) \/ Serves(p)
    \/ Stopped(p) \/ Swallows(p) \/ HandlerRaises(p) \/ ServiceEnds(p)
    \/ Ends(p)

Next ==
    \/ \E p \in Procs :
           Works(p) \/ Starts(p) \/ Launches(p) \/ OnStop(p) \/ IsKilled(p)
    \/ Stops \/ Ask \/ Refused \/ TimeWaitEnds

(* Processes run.  Nobody has to start or stop them.                         *)
Spec ==
    /\ Init /\ [][Next]_vars
    /\ \A p \in Procs : WF_vars(Works(p))
    /\ WF_vars(Refused)
-----------------------------------------------------------------------------
(* The init script waits for nothing, but whoever runs it may.               *)
StopsAreWaitedFor == overlapped = {}

(* A backup is made once, by whichever srdns is the first to look; however   *)
(* often srdns is killed, stopped and started while the client is on the     *)
(* test network, the servers of that network never become the backup: unless *)
(* two daemons overlapped, or a mac once went on without a backup.           *)
BackupIsOriginal ==
    StopsAreWaitedFor /\ (platform # "mac" \/ ~unsaved) =>
        backup # "test"

(* An "ok" is true until the next request: the servers are those that        *)
(* srdnsupdater asked for, whatever signals and deaths came in between,      *)
(* unless networksetup or netsh failed, which nobody looks at.  A handler    *)
(* that raises answers nothing.                                              *)
AnswersAreTrue ==
    ~broken =>
        /\ answered = "set" => servers = "test"
        /\ answered = "reset" /\ (backup = "original" \/ platform = "windows") =>
               servers = "original"

(* A client that is left on neither its own servers nor those of the test    *)
(* network was left there by a switch that was killed, interrupted by a      *)
(* SIGTERM, that raised, or whose tool failed, or has half a backup;         *)
(* stopping the service of windows does not do it.                           *)
HalfSwitchedOnlyByFaults ==
    StopsAreWaitedFor /\ ~unsaved /\ servers = "partial" =>
        broken \/ \E p \in Procs : At(p, "writing")

(* The client leaves its own servers only when it can come back to them,     *)
(* unless two daemons overlapped, or some srdns was killed in the middle of  *)
(* its copy, or had none to make.  (Windows comes back without a backup.)    *)
ServersCanBeRestored ==
    /\ platform # "windows" /\ StopsAreWaitedFor /\ ~unsaved
    /\ servers # "original"
    => backup = "original"

(* The lock keeps a second daemon away: two run only if one of them was told *)
(* to stop, or did not wait for one that was (daemon_sig takes the name from *)
(* a file that is still locked, and the next start makes another).           *)
OneDaemonIfStopsAreWaitedFor ==
    \A p, q \in Procs \ (signalled \union overlapped) :
        pc[p] \in Locked /\ pc[q] \in Locked => p = q

(* A daemon that was not told to stop can be, if those that were had ended   *)
(* when it started: the pid file is the one it has locked, and holds its     *)
(* pid, or nothing after another start emptied it.                           *)
PidFileIsOfTheDaemon ==
    platform = "linux" =>
        \A p \in Procs \ (signalled \union overlapped) :
            pc[p] = "running" =>
                /\ pidfile = file[p]
                /\ content[pidfile] \in {p, NoProc}

(* srdnsupdater waits for its answer without a timeout: the connection ends  *)
(* whatever becomes of srdns.                                                *)
RequestsEnd == request # "none" ~> request = "none"

(* "signal handler: daemon exiting" (stoneridge.py), "Start and stop         *)
(* stoneridge dns modifier daemon" (linux/init/client/srdns): a daemon that  *)
(* is sent a SIGTERM ends.                                                   *)
StoppedDaemonsEnd == \A p \in Procs : p \in signalled ~> pc[p] = "dead"
=============================================================================
