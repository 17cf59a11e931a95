------------------------------ MODULE Daemon ------------------------------
(***************************************************************************)
(* daemonize(): how one of the daemons is started, keeps its pid file, and  *)
(* is told to stop.  The init script that does both waits for neither: its  *)
(* start returns when the first process has forked, its stop when kill has  *)
(* sent SIGTERM, so the processes of several starts may overlap.            *)
(*                                                                         *)
(* A file is named after the process that created it.                       *)
(***************************************************************************)
EXTENDS Naturals

CONSTANTS
    MaxProcs,  \* bound: how many processes are ever started
    MaxStops   \* bound: how often the init script is run to stop the daemon

ASSUME DaemonAssumption == MaxProcs \in Nat /\ MaxStops \in Nat

Procs == 1 .. MaxProcs
NoProc == 0

VARIABLES
    pc,        \* pc[p]: where process p is in daemonize()
    file,      \* file[p]: the file that p opened, or NoProc
    pidfile,   \* the file that has the name of the pid file, or NoProc
    content,   \* content[f]: the pid in file f, or NoProc while it is empty
    term,      \* the processes with a SIGTERM that they did not handle yet
    target,    \* the pid that the init script read, or NoProc
    stops,     \* how often the daemon was stopped
    signalled, \* the processes that were ever sent a SIGTERM
    overlapped \* those that opened it before one told to stop had ended

daemon == <<pc, file, pidfile, content>>
script == <<target, stops>>
signals == <<term, signalled, overlapped>>

(* From "locked" on it has the lock of its file, which need not be the pid   *)
(* file any more.                                                            *)
Locked == {"locked", "named", "running", "leaving"}

DaemonTypeOK ==
    /\ pc \in [Procs -> {"none", "opened", "dead"} \union Locked]
    /\ file \in [Procs -> Procs \union {NoProc}]
    /\ pidfile \in Procs \union {NoProc}
    /\ content \in [Procs -> Procs \union {NoProc}]
    /\ term \subseteq Procs
    /\ signalled \subseteq Procs
    /\ overlapped \subseteq Procs
    /\ target \in Procs \union {NoProc}
    /\ stops \in 0 .. MaxStops

DaemonInit ==
    /\ pc = [p \in Procs |-> "none"]
    /\ file = [p \in Procs |-> NoProc]
    /\ pidfile = NoProc
    /\ content = [p \in Procs |-> NoProc]
    /\ term = {}
    /\ signalled = {}
    /\ overlapped = {}
    /\ target = NoProc
    /\ stops = 0

Alive(p) == pc[p] \notin {"none", "dead"}
IsLocked(f) == \E p \in Procs : pc[p] \in Locked /\ file[p] = f
Goes(p, place) == pc' = [pc EXCEPT ![p] = place]

(* The system closes the file of a process that ends, with its lock.         *)
IsGone(p) == Goes(p, "dead") /\ file' = [file EXCEPT ![p] = NoProc]
-----------------------------------------------------------------------------
(* Processes are numbered as they open.                                      *)
IsNext(p) == \A q \in Procs : pc[q] = "none" <=> q >= p

(* start: the parent exits at once; nobody knows of the child, which is p,   *)
(* before its file(pidfile, 'w') creates the file, or empties it, locked or  *)
(* not.                                                                      *)
Start(p) ==
    /\ IsNext(p)
    /\ Goes(p, "opened")
    /\ LET f == IF pidfile = NoProc THEN p ELSE pidfile IN
       /\ pidfile' = f
       /\ file' = [file EXCEPT ![p] = f]
       /\ content' = [content EXCEPT ![f] = NoProc]
    /\ overlapped' = IF target # NoProc \/ \E q \in signalled : Alive(q)
                     THEN overlapped \union {p} ELSE overlapped
    /\ UNCHANGED <<script, term, signalled>>

(* Faulty: does not look whether it got the lock.                            *)
TakeNoLock(p) ==
    /\ pc[p] = "opened"
    /\ Goes(p, "locked")
    /\ UNCHANGED <<file, pidfile, content, script, signals>>

(* Faulty: cleans up when it does not get the lock.                          *)
LockFailsUnlinking(p) ==
    /\ pc[p] = "opened"
    /\ IF IsLocked(file[p]) THEN IsGone(p) /\ pidfile' = NoProc
       ELSE Goes(p, "locked") /\ UNCHANGED <<file, pidfile>>
    /\ UNCHANGED <<content, script, signals>>

(* lockf() with LOCK_NB raises when another process has the lock.            *)
TakeLock(p) ==
    /\ pc[p] = "opened"
    /\ IF IsLocked(file[p]) THEN IsGone(p)
       ELSE Goes(p, "locked") /\ UNCHANGED file
    /\ UNCHANGED <<pidfile, content, script, signals>>

WritePid(p) ==
    /\ pc[p] = "locked"
    /\ Goes(p, "named")
    /\ content' = [content EXCEPT ![file[p]] = p]
    /\ UNCHANGED <<file, pidfile, script, signals>>

(* Until here a SIGTERM would have killed it.                                *)
SetHandler(p) ==
    /\ pc[p] = "named"
    /\ p \notin term
    /\ Goes(p, "running")
    /\ UNCHANGED <<file, pidfile, content, script, signals>>

DefaultTerm(p) ==
    /\ pc[p] \in {"opened", "locked", "named"}
    /\ p \in term
    /\ IsGone(p)
    /\ UNCHANGED <<pidfile, content, script, signals>>
-----------------------------------------------------------------------------
(* daemon_sig(): the name goes, whichever file has it.  Then SystemExit, or  *)
(* an OSError when there was none, is raised wherever p is.                  *)
daemon_sig(p) ==
    /\ pc[p] = "running"
    /\ p \in term
    /\ term' = term \ {p}
    /\ pidfile' = NoProc
    /\ UNCHANGED <<file, content, script, signalled, overlapped>>

(* The exception gets out of the daemon, and p exits.                        *)
Leaves(p) == Goes(p, "leaving")

Exits(p) ==
    /\ pc[p] = "leaving"
    /\ IsGone(p)
    /\ UNCHANGED <<pidfile, content, script, signals>>

(* Any other exception does, and the pid file stays.                         *)
Raises(p) ==
    /\ pc[p] = "running"
    /\ IsGone(p)
    /\ UNCHANGED <<pidfile, content, script, signals>>

(* kill -9, or a machine that goes down.                                     *)
Dies(p) ==
    /\ Alive(p)
    /\ IsGone(p)
    /\ UNCHANGED <<pidfile, content, script, signals>>

(* stop: $(cat $PID), then kill.                                             *)
ReadPid ==
    /\ stops < MaxStops
    /\ stops' = stops + 1
    /\ target = NoProc
    /\ pidfile # NoProc
    /\ target' = content[pidfile]
    /\ UNCHANGED <<daemon, signals>>

Kill ==
    /\ target # NoProc
    /\ target' = NoProc
    /\ IF Alive(target)
       THEN /\ term' = term \union {target}
            /\ signalled' = signalled \union {target}
            /\ overlapped' =
                   overlapped \union {p \in Procs : pc[p] = "opened"}
       ELSE UNCHANGED signals
    /\ UNCHANGED <<daemon, stops>>
=============================================================================
