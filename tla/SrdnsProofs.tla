---------------------------- MODULE SrdnsProofs ----------------------------
(***************************************************************************)
(* Proofs about srdns and its daemon, for any number of processes, stops    *)
(* and requests.                                                            *)
(***************************************************************************)
EXTENDS Srdns, TLAPS

InRequest == {"handling", "writing", "answering"}
Ready == InRequest \union {"serving"}

(* Only who has the port serves, and there is a request while one is         *)
(* handled; on linux nobody gets that far without a backup.                  *)
ControlInv ==
    \A p \in Procs :
        /\ pc[p] \notin {"running", "leaving"} => at[p] = "saving"
        /\ pc[p] = "running" /\ at[p] \in Ready => port = p
        /\ pc[p] = "running" /\ at[p] \in InRequest => request # "none"
        /\ platform = "linux" /\ pc[p] = "running"
              /\ at[p] \in Ready \union {"binding"} => backup # "none"

TypeInv == TypeOK /\ ControlInv

(* A switch that went well has made true what is answered next.              *)
AnswerInv ==
    /\ answered # "none" => request = "none"
    /\ AnswersAreTrue
    /\ \A p \in Procs :
          At(p, "answering") /\ ~broken =>
              /\ request = "set" => servers = "test"
              /\ request = "reset"
                    /\ (backup = "original" \/ platform = "windows") =>
                 servers = "original"

(* Neither told to stop, nor started before one that was had ended.          *)
Clean == Procs \ (signalled \union overlapped)

(* A file is locked by one process, and holds the pid of that one, or of     *)
(* none.                                                                     *)
FilesInv ==
    /\ \A p \in Procs : ~Alive(p) => file[p] = NoProc
    /\ \A p, q \in Procs :
          /\ pc[p] \in Locked /\ pc[q] \in Locked
          /\ file[p] = file[q] /\ file[p] # NoProc
          => p = q
    /\ \A f, p \in Procs :
          content[f] = p =>
              \/ pc[p] = "dead"
              \/ pc[p] \in Locked \ {"locked"} /\ file[p] = f
    /\ \A p \in Procs :
          platform = "linux" /\ Alive(p) =>
              /\ file[p] \in Procs
              /\ pc[p] \in Locked \ {"locked"} => content[file[p]] \in {p, NoProc}

(* Only processes that were started are told to stop, and the init script    *)
(* has read the pid of one that was named.                                   *)
TargetInv ==
    /\ term \subseteq signalled
    /\ \A p \in signalled : pc[p] # "none"
    /\ target # NoProc => pc[target] \in (Locked \ {"locked"}) \union {"dead"}
    /\ platform # "linux" => pidfile = NoProc /\ target = NoProc

(* While a clean daemon is there, nobody who was told to stop is, and the    *)
(* pid file is the one that it has opened.                                   *)
CleanInv ==
    /\ \A p \in Clean, q \in signalled : ~(Alive(p) /\ Alive(q))
    /\ \A p \in Clean :
          platform = "linux" /\ Alive(p) =>
              /\ file[p] = pidfile /\ pidfile # NoProc
              /\ target # NoProc /\ Alive(target) => file[target] = pidfile
    /\ platform # "linux" =>
          \A p, q \in Procs \ signalled : Alive(p) /\ Alive(q) => p = q

LockInv == FilesInv /\ TargetInv /\ CleanInv
-----------------------------------------------------------------------------
LEMMA NoProcIsNoProcess == NoProc \notin Procs
BY DEF NoProc, Procs

(* Processes are numbered, and the next one does not exist yet.              *)
LEMMA NextIsNew ==
    ASSUME NEW p \in Procs, IsNext(p)
    PROVE  pc[p] = "none"
<1>1. p >= p
  BY DaemonAssumption DEF Procs
<1> QED BY <1>1 DEF IsNext

LEMMA InitTypes == Init => TypeInv
<1> SUFFICES ASSUME Init PROVE TypeInv
  OBVIOUS
<1> USE DEF Init, DaemonInit
<1>1. DaemonTypeOK
  BY DaemonAssumption DEF DaemonTypeOK
<1>2. TypeOK
  <2>1. timeWait \in BOOLEAN /\ unsaved \in BOOLEAN /\ broken \in BOOLEAN
    OBVIOUS
  <2>2. requests \in 0 .. MaxRequests
    BY SrdnsAssumption DEF SrdnsAssumption
  <2> QED BY <1>1, <2>1, <2>2 DEF TypeOK, Contents
<1>3. ControlInv
  BY DEF ControlInv, Ready, InRequest
<1> QED BY <1>2, <1>3 DEF TypeInv

(* The steps of daemonize().                                                 *)
LEMMA DaemonTypes ==
    ASSUME TypeInv, NEW p \in Procs,
           \/ Start(p) \/ TakeLock(p) \/ WritePid(p) \/ SetHandler(p)
           \/ DefaultTerm(p),
           UNCHANGED <<platform, srdns, client, ghosts>>
    PROVE  TypeInv'
<1> USE DEF daemon, script, signals, srdns, client, ghosts
<1>0. TypeOK /\ DaemonTypeOK /\ ControlInv /\ NoProc \notin Procs
  BY NoProcIsNoProcess DEF TypeInv, TypeOK
<1>1. ASSUME DaemonTypeOK' PROVE TypeOK'
  BY <1>0, <1>1 DEF TypeOK
<1>2. CASE Start(p)
  <2>1. pc[p] = "none"
    BY <1>2, NextIsNew DEF Start
  <2>2. DaemonTypeOK'
    BY <1>0, <1>2, <2>1 DEF DaemonTypeOK, Start, Goes, Locked
  <2>3. ControlInv'
    BY <1>0, <1>2, <2>1 DEF DaemonTypeOK, ControlInv, Start, Goes
  <2> QED BY <1>1, <2>2, <2>3 DEF TypeInv
<1>3. CASE TakeLock(p) \/ DefaultTerm(p)
  <2>1. DaemonTypeOK'
    BY <1>0, <1>3 DEF DaemonTypeOK, TakeLock, DefaultTerm, IsGone, Goes, Locked
  <2>2. ControlInv'
    BY <1>0, <1>3 DEF DaemonTypeOK, ControlInv, TakeLock, DefaultTerm, IsGone,
                      Goes
  <2> QED BY <1>1, <2>1, <2>2 DEF TypeInv
<1>4. CASE WritePid(p) \/ SetHandler(p)
  <2>1. DaemonTypeOK'
    BY <1>0, <1>4 DEF DaemonTypeOK, WritePid, SetHandler, Goes, Locked
  <2>2. ControlInv'
    BY <1>0, <1>4 DEF DaemonTypeOK, ControlInv, WritePid, SetHandler, Goes,
                      Ready, InRequest
  <2> QED BY <1>1, <2>1, <2>2 DEF TypeInv
<1> QED BY <1>2, <1>3, <1>4

(* The init script stops the daemon.                                         *)
LEMMA StopsTypes ==
    ASSUME TypeInv, Stops
    PROVE  TypeInv'
<1> USE DEF daemon, script, signals, srdns, client, ghosts, Stops
<1>0. TypeOK /\ DaemonTypeOK /\ ControlInv
  BY DEF TypeInv, TypeOK
<1>1. DaemonTypeOK'
  BY <1>0, DaemonAssumption DEF DaemonTypeOK, ReadPid, Kill
<1>2. ControlInv'
  BY <1>0 DEF ControlInv, ReadPid, Kill
<1>3. TypeOK'
  BY <1>0, <1>1 DEF TypeOK
<1> QED BY <1>2, <1>3 DEF TypeInv
-----------------------------------------------------------------------------
(* The steps of srdns that leave its process as it is.                       *)
LEMMA ServesTypes ==
    ASSUME TypeInv, NEW p \in Procs,
           \/ Save(p) \/ BeginCopy(p) \/ EndCopy(p) \/ Bind(p) \/ Accept(p)
           \/ Truncate(p) \/ Write(p) \/ Configure(p)
           \/ SwitchOff(p) \/ SwitchOn(p) \/ Answer(p)
    PROVE  TypeInv'
<1> USE DEF daemon, script, signals, client, ghosts, At, Moves, Contents
<1>0. TypeOK /\ ControlInv /\ NoProc \notin Procs
  BY NoProcIsNoProcess DEF TypeInv
<1>d. UNCHANGED <<daemon, script, signals, platform, requests>>
  BY DEF Save, BeginCopy, EndCopy, Bind, Accept, Truncate, Write, Configure,
         SwitchOff, SwitchOn, Answer
<1>1. DaemonTypeOK' /\ platform' \in {"linux", "mac", "windows"}
      /\ requests' \in 0 .. MaxRequests
  BY <1>0, <1>d DEF TypeOK, DaemonTypeOK
<1>b. timeWait' \in BOOLEAN /\ unsaved' \in BOOLEAN /\ broken' \in BOOLEAN
  BY <1>0 DEF TypeOK, Save, BeginCopy, EndCopy, Bind, Accept, Truncate, Write,
              Configure, SwitchOff, SwitchOn, Answer
<1>2. CASE Save(p) \/ BeginCopy(p) \/ EndCopy(p)
  <2>1. TypeOK'
    BY <1>0, <1>1, <1>b, <1>2 DEF TypeOK, Save, BeginCopy, EndCopy
  <2>2. ControlInv'
    BY <1>0, <1>2 DEF TypeOK, DaemonTypeOK, ControlInv, Ready, InRequest, Save,
                      BeginCopy, EndCopy
  <2> QED BY <2>1, <2>2 DEF TypeInv
<1>3. CASE Bind(p) \/ Accept(p) \/ Answer(p)
  <2>1. TypeOK'
    BY <1>0, <1>1, <1>b, <1>3 DEF TypeOK, Bind, Accept, Answer
  <2>2. ControlInv'
    BY <1>0, <1>3 DEF TypeOK, DaemonTypeOK, ControlInv, Ready, InRequest, Bind,
                      PortIsFree, Accept, Answer
  <2> QED BY <2>1, <2>2 DEF TypeInv
<1>4. CASE Truncate(p) \/ Write(p) \/ Configure(p) \/ SwitchOff(p) \/ SwitchOn(p)
  <2>1. request \in {"set", "reset"} /\ at[p] \in InRequest /\ pc[p] = "running"
    BY <1>0, <1>4 DEF TypeOK, ControlInv, InRequest, Truncate, Write, Configure,
                      SwitchOff, SwitchOn
  <2>2. platform = "linux" => backup # "none"
    BY <1>0, <2>1 DEF ControlInv, Ready
  <2>3. platform \in {"linux", "windows"} => Requested \in Contents
    BY <1>0, <2>1, <2>2 DEF TypeOK, Requested
  <2>4. request = "set" \/ backup \in {"original", "test"} =>
            Requested \in Contents
    BY <1>0, <2>1, <2>2 DEF TypeOK, Requested
  <2>5. servers' \in Contents
    BY <1>0, <1>4, <2>3, <2>4 DEF TypeOK, Truncate, Write, Configure, SwitchOff,
                                  SwitchOn
  <2>6. TypeOK'
    BY <1>0, <1>1, <1>b, <1>4, <2>5 DEF TypeOK, Truncate, Write, Configure,
                                       SwitchOff, SwitchOn
  <2>7. ControlInv'
    BY <1>0, <1>4 DEF TypeOK, DaemonTypeOK, ControlInv, Ready, InRequest,
                      Truncate, Write, Configure, SwitchOff, SwitchOn
  <2> QED BY <2>6, <2>7 DEF TypeInv
<1> QED BY <1>2, <1>3, <1>4

(* The client and the network.                                               *)
LEMMA ClientTypes ==
    ASSUME TypeInv, Ask \/ Refused \/ TimeWaitEnds
    PROVE  TypeInv'
<1> USE DEF daemon, script, signals, srdns, client, ghosts
<1>0. TypeOK /\ ControlInv /\ NoProc \notin Procs
  BY NoProcIsNoProcess DEF TypeInv
<1>1. DaemonTypeOK'
  BY <1>0 DEF TypeOK, DaemonTypeOK, Ask, Refused, TimeWaitEnds
<1>2. timeWait' \in BOOLEAN /\ unsaved' \in BOOLEAN /\ broken' \in BOOLEAN
  BY <1>0 DEF TypeOK, Ask, Refused, TimeWaitEnds
<1>3. TypeOK'
  BY <1>0, <1>1, <1>2, SrdnsAssumption
     DEF TypeOK, Contents, Ask, Refused, TimeWaitEnds, SrdnsAssumption
<1>4. ControlInv'
  BY <1>0 DEF ControlInv, Ready, InRequest, Ask, Refused, TimeWaitEnds
<1> QED BY <1>3, <1>4 DEF TypeInv
(* A process is gone, and the system has closed what it had.                 *)
LEMMA EndsTypes ==
    ASSUME TypeInv, NEW p \in Procs, BindRaises(p) \/ Ends(p) \/ IsKilled(p)
    PROVE  TypeInv'
<1> USE DEF script, signals, ghosts
<1>0. TypeOK /\ DaemonTypeOK /\ ControlInv /\ NoProc \notin Procs
  BY NoProcIsNoProcess DEF TypeInv, TypeOK
<1>1. /\ IsGone(p) /\ Closes(p)
      /\ UNCHANGED <<pidfile, content, script, signals>>
  BY DEF BindRaises, Raises, Ends, Exits, IsKilled, Dies
<1>2. timeWait' \in BOOLEAN
  BY <1>0, <1>1 DEF TypeOK, Closes
<1>3. unsaved' \in BOOLEAN /\ broken' \in BOOLEAN
  BY <1>0 DEF TypeOK, BindRaises, Ends, IsKilled
<1>4. DaemonTypeOK'
  BY <1>0, <1>1 DEF DaemonTypeOK, IsGone, Goes
<1>5. TypeOK'
  BY <1>0, <1>1, <1>2, <1>3, <1>4 DEF TypeOK, Contents, Closes, Moves
<1>6. ControlInv'
  BY <1>0, <1>1 DEF TypeOK, DaemonTypeOK, ControlInv, Ready, InRequest, IsGone,
                    Goes, Closes, Moves
<1> QED BY <1>5, <1>6 DEF TypeInv

(* A SIGTERM, or a stop of the service.                                      *)
LEMMA SignalTypes ==
    ASSUME TypeInv, NEW p \in Procs,
           \/ Stopped(p) \/ Swallows(p) \/ HandlerRaises(p)
           \/ ServiceEnds(p) \/ OnStop(p)
    PROVE  TypeInv'
<1> USE DEF daemon, script, signals, srdns, client, ghosts
<1>0. TypeOK /\ DaemonTypeOK /\ ControlInv /\ NoProc \notin Procs
  BY NoProcIsNoProcess DEF TypeInv, TypeOK
<1>1. timeWait' \in BOOLEAN /\ unsaved' \in BOOLEAN /\ broken' \in BOOLEAN
  BY <1>0 DEF TypeOK, Stopped, Swallows, HandlerRaises, ServiceEnds, OnStop
<1>2. DaemonTypeOK'
  BY <1>0, DaemonAssumption
     DEF DaemonTypeOK, Stopped, Swallows, HandlerRaises, ServiceEnds, OnStop,
         daemon_sig, Leaves, Goes, Locked
<1>3. TypeOK'
  BY <1>0, <1>1, <1>2 DEF TypeOK, Contents, Stopped, Swallows,
                          HandlerRaises, ServiceEnds, OnStop, Moves
<1>4. ControlInv'
  <2>1. CASE Stopped(p) \/ ServiceEnds(p)
    BY <1>0, <2>1 DEF TypeOK, DaemonTypeOK, ControlInv, Ready, InRequest,
                      Stopped, ServiceEnds, daemon_sig, Leaves, Goes, At
  <2>2. CASE Swallows(p) \/ HandlerRaises(p)
    BY <1>0, <2>2 DEF TypeOK, DaemonTypeOK, ControlInv, Ready, InRequest,
                      Swallows, HandlerRaises, Busy, daemon_sig, Moves
  <2>3. CASE OnStop(p)
    BY <1>0, <2>3 DEF ControlInv, OnStop
  <2> QED BY <2>1, <2>2, <2>3
<1> QED BY <1>3, <1>4 DEF TypeInv

LEMMA LaunchTypes ==
    ASSUME TypeInv, NEW p \in Procs, Launches(p)
    PROVE  TypeInv'
<1> USE DEF script, signals, srdns, client, ghosts, Launches, Goes
<1>0. TypeOK /\ DaemonTypeOK /\ ControlInv
  BY DEF TypeInv, TypeOK
<1>1. DaemonTypeOK'
  BY <1>0 DEF DaemonTypeOK, Locked
<1>2. timeWait' \in BOOLEAN /\ unsaved' \in BOOLEAN /\ broken' \in BOOLEAN
  BY <1>0 DEF TypeOK
<1>3. TypeOK'
  BY <1>0, <1>1, <1>2 DEF TypeOK, Contents
<1>4. pc[p] = "none"
  BY NextIsNew
<1>5. ControlInv'
  BY <1>0, <1>4 DEF DaemonTypeOK, ControlInv, Ready, InRequest
<1> QED BY <1>3, <1>5 DEF TypeInv

LEMMA NextTypes == TypeInv /\ [Next]_vars => TypeInv'
<1> SUFFICES ASSUME TypeInv, [Next]_vars PROVE TypeInv'
  OBVIOUS
<1>1. ASSUME NEW p \in Procs, Works(p) PROVE TypeInv'
  <2>1. CASE Daemonizes(p)
    BY <2>1, DaemonTypes DEF Daemonizes
  <2>2. CASE Serves(p)
    BY <2>2, ServesTypes, EndsTypes DEF Serves
  <2>3. CASE Stopped(p) \/ Swallows(p) \/ HandlerRaises(p) \/ ServiceEnds(p)
    BY <2>3, SignalTypes
  <2>4. CASE Ends(p)
    BY <2>4, EndsTypes
  <2> QED BY <1>1, <2>1, <2>2, <2>3, <2>4 DEF Works
<1>2. ASSUME NEW p \in Procs, Starts(p) \/ Launches(p) \/ OnStop(p) \/ IsKilled(p)
      PROVE  TypeInv'
  BY <1>2, DaemonTypes, LaunchTypes, SignalTypes, EndsTypes DEF Starts
<1>3. CASE Stops
  BY <1>3, StopsTypes
<1>4. CASE Ask \/ Refused \/ TimeWaitEnds
  BY <1>4, ClientTypes
<1>5. CASE UNCHANGED vars
  BY <1>5 DEF vars, daemon, script, signals, srdns, client, ghosts, TypeInv,
              TypeOK, DaemonTypeOK, ControlInv
<1> QED BY <1>1, <1>2, <1>3, <1>4, <1>5 DEF Next

LEMMA TypeInvHolds == Init /\ [][Next]_vars => []TypeInv
BY InitTypes, NextTypes, PTL

(* What every variable may be, whatever the steps of processes, signals,     *)
(* requests and deaths: in particular what is restored is a backup that was  *)
(* made (srdns.py's reset_dns).                                              *)
THEOREM SrdnsTypeCorrect == Spec => []TypeOK
<1>1. TypeInv => TypeOK
  BY DEF TypeInv
<1> QED BY <1>1, TypeInvHolds, PTL DEF Spec
-----------------------------------------------------------------------------
(* An "ok" is true.  A process that has become a running one has not begun   *)
(* to serve, so that only the request at hand matters.                       *)
LEMMA InitAnswers == Init => AnswerInv
BY DEF Init, DaemonInit, AnswerInv, AnswersAreTrue, At

LEMMA AnswersStay ==
    ASSUME TypeInv, AnswerInv,
           UNCHANGED <<platform, servers, backup, request, answered, broken>>,
           \A p \in Procs : At(p, "answering")' => At(p, "answering")
    PROVE  AnswerInv'
BY DEF AnswerInv, AnswersAreTrue, At

LEMMA DaemonAnswers ==
    ASSUME TypeInv, AnswerInv, NEW p \in Procs,
           Starts(p) \/ Launches(p) \/ OnStop(p) \/ Daemonizes(p)
    PROVE  AnswerInv'
<1> USE DEF daemon, script, signals, srdns, client, ghosts
<1>1. DaemonTypeOK /\ ControlInv
  BY DEF TypeInv, TypeOK
<1>2. UNCHANGED <<platform, servers, backup, request, answered, broken, at>>
  BY DEF Starts, Launches, OnStop, Daemonizes
<1>3. \A q \in Procs : pc'[q] = "running" => pc[q] = "running" \/ at[q] = "saving"
  <2>1. CASE Starts(p) \/ OnStop(p)
    BY <1>1, <2>1 DEF DaemonTypeOK, Starts, Start, Goes, OnStop
  <2>2. CASE Launches(p)
    BY <1>1, <2>2, NextIsNew DEF DaemonTypeOK, ControlInv, Launches, Goes
  <2>3. CASE Daemonizes(p)
    BY <1>1, <2>3 DEF DaemonTypeOK, ControlInv, Daemonizes, TakeLock, WritePid,
                      SetHandler, DefaultTerm, IsGone, Goes
  <2> QED BY <2>1, <2>2, <2>3
<1> QED BY <1>2, <1>3, AnswersStay DEF At

LEMMA EndsAnswers ==
    ASSUME TypeInv, AnswerInv, NEW p \in Procs,
           BindRaises(p) \/ Ends(p) \/ IsKilled(p)
    PROVE  AnswerInv'
<1>1. TypeOK /\ DaemonTypeOK /\ ControlInv
  BY DEF TypeInv, TypeOK
<1>2. IsGone(p) /\ Closes(p)
  BY DEF BindRaises, Raises, Ends, Exits, IsKilled, Dies
<1>b. ~broken' => ~broken
  BY DEF BindRaises, Ends, IsKilled, ghosts
<1>3. \A q \in Procs : At(q, "answering")' => At(q, "answering") /\ q # p
  BY <1>1, <1>2 DEF TypeOK, DaemonTypeOK, At, IsGone, Goes, Closes, Moves
<1> QED
  BY <1>2, <1>b, <1>3 DEF AnswerInv, AnswersAreTrue, At, Closes

LEMMA SignalAnswers ==
    ASSUME TypeInv, AnswerInv, NEW p \in Procs,
           Stopped(p) \/ Swallows(p) \/ HandlerRaises(p) \/ ServiceEnds(p)
    PROVE  AnswerInv'
<1>1. TypeOK /\ DaemonTypeOK /\ ControlInv
  BY DEF TypeInv, TypeOK
<1>2. CASE Stopped(p) \/ ServiceEnds(p)
  <2>1. UNCHANGED <<platform, servers, backup, request, answered, broken, at>>
    BY <1>2 DEF Stopped, ServiceEnds, srdns, client, ghosts
  <2>2. \A q \in Procs : pc'[q] = "running" => pc[q] = "running"
    BY <1>1, <1>2 DEF DaemonTypeOK, Stopped, ServiceEnds, Leaves, Goes
  <2> QED BY <2>1, <2>2, AnswersStay DEF At
<1>3. CASE Swallows(p) \/ HandlerRaises(p)
  <2>1. ~broken' => ~broken
    BY <1>3 DEF Swallows, HandlerRaises
  <2>2. request # "none"
    BY <1>1, <1>3 DEF ControlInv, InRequest, Swallows, HandlerRaises, Busy,
                      daemon_sig
  <2>3. /\ UNCHANGED <<pc, platform, servers, backup, answered>>
        /\ at' = [at EXCEPT ![p] = "serving"]
        /\ request' = "none"
    BY <1>3 DEF Swallows, HandlerRaises, Moves, daemon
  <2>4. answered = "none" /\ answered' = "none"
    BY <2>2, <2>3 DEF AnswerInv
  <2> QED BY <2>3, <2>4 DEF AnswerInv, AnswersAreTrue
<1> QED BY <1>2, <1>3

LEMMA ClientAnswers ==
    ASSUME TypeInv, AnswerInv, Ask \/ Refused \/ TimeWaitEnds \/ Stops
    PROVE  AnswerInv'
<1> USE DEF srdns, client, ghosts, daemon
<1>1. UNCHANGED <<pc, at, platform, servers, backup, broken>>
  BY DEF Ask, Refused, TimeWaitEnds, Stops, ReadPid, Kill
<1>2. CASE Ask
  <2>1. answered' = "none" /\ request = "none"
    BY <1>2 DEF Ask
  <2>2. \A p \in Procs : ~At(p, "answering")
    BY <2>1 DEF TypeInv, ControlInv, At, InRequest
  <2> QED BY <1>1, <2>1, <2>2 DEF AnswerInv, AnswersAreTrue, At
<1>3. CASE Refused \/ TimeWaitEnds \/ Stops
  <2>1. answered' = answered /\ request' \in {request, "none"}
    BY <1>3 DEF Refused, TimeWaitEnds, Stops
  <2> QED BY <1>1, <2>1 DEF AnswerInv, AnswersAreTrue, At
<1> QED BY <1>2, <1>3

LEMMA ServesAnswers ==
    ASSUME TypeInv, AnswerInv, NEW p \in Procs,
           \/ Save(p) \/ BeginCopy(p) \/ EndCopy(p) \/ Bind(p) \/ Accept(p)
           \/ Truncate(p) \/ Write(p) \/ Configure(p)
           \/ SwitchOff(p) \/ SwitchOn(p) \/ Answer(p)
    PROVE  AnswerInv'
<1> USE DEF daemon, client, At, Moves
<1>1. TypeOK /\ DaemonTypeOK /\ ControlInv
  BY DEF TypeInv, TypeOK
<1>2. CASE Save(p) \/ BeginCopy(p) \/ EndCopy(p) \/ Bind(p) \/ Accept(p)
  BY <1>1, <1>2 DEF TypeOK, AnswerInv, AnswersAreTrue, Save, BeginCopy, EndCopy,
                    Bind, Accept, ghosts
<1>3. CASE Truncate(p) \/ Write(p) \/ Configure(p) \/ SwitchOff(p) \/ SwitchOn(p)
  <2>1. at[p] \in InRequest /\ pc[p] = "running"
    BY <1>3 DEF InRequest, Truncate, Write, Configure, SwitchOff, SwitchOn
  <2>2. request # "none" /\ answered = "none"
    BY <1>1, <2>1 DEF ControlInv, AnswerInv
  <2>3. \A q \in Procs \ {p} : ~At(q, "answering")
    BY <1>1, <2>1 DEF ControlInv, Ready, InRequest
  <2>4. CASE Truncate(p) \/ SwitchOff(p)
    BY <1>1, <2>2, <2>3, <2>4 DEF TypeOK, AnswerInv, AnswersAreTrue, Truncate,
                                  SwitchOff, ghosts
  <2>5. CASE Write(p) \/ Configure(p) \/ SwitchOn(p)
    <3>1. /\ UNCHANGED <<pc, platform, backup, request, answered>>
          /\ at' = [at EXCEPT ![p] = "answering"]
      BY <2>5 DEF Write, Configure, SwitchOn
    <3>2. ~broken' => /\ request = "set" => servers' = "test"
                      /\ request = "reset"
                            /\ (backup = "original" \/ platform = "windows") =>
                         servers' = "original"
      BY <1>1, <2>5 DEF TypeOK, Write, Configure, SwitchOn, Requested
    <3> QED
      BY <1>1, <2>2, <2>3, <3>1, <3>2 DEF TypeOK, AnswerInv, AnswersAreTrue
  <2> QED BY <1>3, <2>4, <2>5
<1>4. CASE Answer(p)
  <2>1. /\ UNCHANGED <<pc, platform, servers, backup, broken>>
        /\ at' = [at EXCEPT ![p] = "serving"]
        /\ answered' = request /\ request' = "none"
    BY <1>4 DEF Answer, ghosts
  <2>2. \A q \in Procs : ~At(q, "answering")'
    BY <1>1, <1>4, <2>1 DEF TypeOK, ControlInv, Ready, InRequest, Answer
  <2>3. AnswersAreTrue'
    BY <1>4, <2>1 DEF AnswerInv, AnswersAreTrue, Answer
  <2> QED BY <2>1, <2>2, <2>3 DEF AnswerInv
<1> QED BY <1>2, <1>3, <1>4

LEMMA NextAnswers == TypeInv /\ AnswerInv /\ [Next]_vars => AnswerInv'
<1> SUFFICES ASSUME TypeInv, AnswerInv, [Next]_vars PROVE AnswerInv'
  OBVIOUS
<1>1. ASSUME NEW p \in Procs, Works(p) PROVE AnswerInv'
  BY <1>1, DaemonAnswers, ServesAnswers, EndsAnswers, SignalAnswers
     DEF Works, Serves
<1>2. ASSUME NEW p \in Procs, Starts(p) \/ Launches(p) \/ OnStop(p) \/ IsKilled(p)
      PROVE  AnswerInv'
  BY <1>2, DaemonAnswers, EndsAnswers
<1>3. CASE Stops \/ Ask \/ Refused \/ TimeWaitEnds
  BY <1>3, ClientAnswers
<1>4. CASE UNCHANGED vars
  BY <1>4, AnswersStay DEF vars, daemon, srdns, client, ghosts, At
<1> QED BY <1>1, <1>2, <1>3, <1>4 DEF Next

(* The "ok" of srdns.py's handle() and of svcMain() is true until the next   *)
(* request, for any number of processes, deaths and signals, unless the tool *)
(* that it started has failed.                                               *)
THEOREM AnswersHold == Spec => []AnswersAreTrue
<1>1. AnswerInv => AnswersAreTrue
  BY DEF AnswerInv
<1> QED BY <1>1, InitAnswers, NextAnswers, TypeInvHolds, PTL DEF Spec
-----------------------------------------------------------------------------
(* One daemon, and its pid file.  A daemon that was told to stop takes the    *)
(* name from whichever pid file there is, so a clean daemon must not be      *)
(* there then; and a pid that the init script has read must be that of the   *)
(* daemon that has locked the file, so that it is told to stop itself.       *)
LEMMA InitLock == Init => LockInv
BY NoProcIsNoProcess
   DEF Init, DaemonInit, LockInv, FilesInv, TargetInv, CleanInv, Clean, Alive,
       Locked

LEMMA QuietLock ==
    ASSUME LockInv, UNCHANGED <<daemon, script, signals, platform>>
    PROVE  LockInv'
BY DEF LockInv, FilesInv, TargetInv, CleanInv, Clean, Alive, daemon, script,
       signals

(* A process that ends takes nothing with it but its lock.                   *)
LEMMA GoneLock ==
    ASSUME TypeInv, LockInv, NEW p \in Procs, IsGone(p),
           UNCHANGED <<pidfile, content, script, signals, platform>>
    PROVE  LockInv'
<1>0. DaemonTypeOK /\ NoProc \notin Procs
  BY NoProcIsNoProcess DEF TypeInv, TypeOK
<1>1. /\ pc' = [pc EXCEPT ![p] = "dead"]
      /\ file' = [file EXCEPT ![p] = NoProc]
      /\ UNCHANGED <<pidfile, content, target, term, signalled, overlapped,
                     platform>>
  BY DEF IsGone, Goes, script, signals
<1>2. FilesInv'
  BY <1>0, <1>1 DEF DaemonTypeOK, LockInv, FilesInv, Alive, Locked
<1>3. TargetInv'
  BY <1>0, <1>1 DEF DaemonTypeOK, LockInv, TargetInv, Locked
<1>4. CleanInv'
  BY <1>0, <1>1 DEF DaemonTypeOK, LockInv, CleanInv, Clean, Alive
<1> QED BY <1>2, <1>3, <1>4 DEF LockInv

LEMMA StartLock ==
    ASSUME TypeInv, LockInv, NEW p \in Procs, Starts(p)
    PROVE  LockInv'
<1>0. DaemonTypeOK /\ NoProc \notin Procs
  BY NoProcIsNoProcess DEF TypeInv, TypeOK
<1> DEFINE f == IF pidfile = NoProc THEN p ELSE pidfile
<1>1. /\ platform = "linux" /\ platform' = "linux"
      /\ pc' = [pc EXCEPT ![p] = "opened"]
      /\ file' = [file EXCEPT ![p] = f]
      /\ content' = [content EXCEPT ![f] = NoProc]
      /\ pidfile' = f
      /\ UNCHANGED <<target, term, signalled>>
  BY DEF Starts, Start, Goes, script
<1>2. overlapped' = IF target # NoProc \/ \E q \in signalled : Alive(q)
                    THEN overlapped \union {p} ELSE overlapped
  BY DEF Starts, Start
<1>3. pc[p] = "none" /\ f \in Procs
  BY <1>0, NextIsNew DEF Starts, Start, DaemonTypeOK
<1> HIDE DEF f
<1>4. FilesInv'
  BY <1>0, <1>1, <1>3 DEF DaemonTypeOK, LockInv, FilesInv, Alive, Locked
<1>5. TargetInv'
  BY <1>0, <1>1, <1>3 DEF DaemonTypeOK, LockInv, TargetInv, Locked
<1>6. \A q \in Clean' : Alive(q)' => (q \in Clean /\ Alive(q)) \/ q = p
  BY <1>0, <1>1, <1>2, <1>3 DEF DaemonTypeOK, Clean, Alive
<1>7. p \in Clean' => target = NoProc /\ \A q \in signalled : ~Alive(q)
  BY <1>2 DEF Clean
<1>8. \A q \in signalled : Alive(q)' => Alive(q) \/ q = p
  BY <1>0, <1>1 DEF DaemonTypeOK, Alive
<1>9. p \in Clean' => p \notin signalled
  BY <1>1 DEF Clean
<1>10. (\E q \in Clean : Alive(q)) => f = pidfile
  BY <1>1 DEF LockInv, CleanInv, f
<1>11. \A q \in Clean', r \in signalled' : ~(Alive(q)' /\ Alive(r)')
  <2> SUFFICES ASSUME NEW q \in Clean', NEW r \in signalled, Alive(q)', Alive(r)'
               PROVE  FALSE
    BY <1>1
  <2>1. CASE q = p
    BY <1>7, <1>8, <1>9, <2>1
  <2>2. CASE q # p
    <3>1. q \in Clean /\ Alive(q)
      BY <1>6, <2>2
    <3>2. ~Alive(r)
      BY <3>1 DEF LockInv, CleanInv
    <3>3. r # p
      BY <1>3 DEF LockInv, TargetInv
    <3> QED
      BY <1>8, <3>1, <3>2, <3>3
  <2> QED BY <2>1, <2>2
<1>12. \A q \in Clean' : Alive(q)' =>
           /\ file'[q] = f /\ f # NoProc
           /\ target # NoProc /\ Alive(target)' => file'[target] = f
  <2> SUFFICES ASSUME NEW q \in Clean', Alive(q)'
               PROVE  /\ file'[q] = f /\ f # NoProc
                      /\ target # NoProc /\ Alive(target)' => file'[target] = f
    OBVIOUS
  <2>1. CASE q = p
    BY <1>0, <1>1, <1>3, <1>7, <2>1 DEF DaemonTypeOK
  <2>2. CASE q # p
    <3>1. q \in Clean /\ Alive(q) /\ q \in Procs
      BY <1>6, <2>2 DEF Clean
    <3>2. f = pidfile /\ file[q] = pidfile
      BY <1>1, <1>10, <3>1 DEF LockInv, CleanInv
    <3>3. target # NoProc => target # p
      BY <1>0, <1>3 DEF LockInv, TargetInv, Locked
    <3>4. target # NoProc /\ Alive(target) => file[target] = pidfile
      BY <1>1, <3>1 DEF LockInv, CleanInv
    <3> QED
      BY <1>0, <1>1, <1>3, <2>2, <3>1, <3>2, <3>3, <3>4 DEF DaemonTypeOK, Alive
  <2> QED BY <2>1, <2>2
<1>13. CleanInv'
  BY <1>1, <1>11, <1>12 DEF CleanInv
<1> QED BY <1>4, <1>5, <1>13 DEF LockInv

LEMMA DaemonizesLock ==
    ASSUME TypeInv, LockInv, NEW p \in Procs, Daemonizes(p)
    PROVE  LockInv'
<1>0. DaemonTypeOK /\ NoProc \notin Procs
  BY NoProcIsNoProcess DEF TypeInv, TypeOK
<1>1. UNCHANGED <<pidfile, target, term, signalled, overlapped, platform>>
  BY DEF Daemonizes, TakeLock, WritePid, SetHandler, DefaultTerm, script, signals
<1>2. CASE IsGone(p) /\ UNCHANGED content
  BY <1>1, <1>2, GoneLock DEF script, signals, Daemonizes, TakeLock, WritePid,
                              SetHandler, DefaultTerm
<1>3. CASE TakeLock(p) /\ ~IsLocked(file[p])
  <2>1. pc[p] = "opened" /\ pc' = [pc EXCEPT ![p] = "locked"]
        /\ UNCHANGED <<file, content>>
    BY <1>3 DEF TakeLock, Goes
  <2>2. FilesInv'
    BY <1>0, <1>1, <1>3, <2>1 DEF DaemonTypeOK, LockInv, FilesInv, IsLocked,
                                  Alive, Locked
  <2>3. TargetInv'
    BY <1>0, <1>1, <2>1 DEF DaemonTypeOK, LockInv, TargetInv, Locked
  <2>4. CleanInv'
    BY <1>0, <1>1, <2>1 DEF DaemonTypeOK, LockInv, CleanInv, Clean, Alive
  <2> QED BY <2>2, <2>3, <2>4 DEF LockInv
<1>4. CASE WritePid(p)
  <2>1. pc[p] = "locked" /\ pc' = [pc EXCEPT ![p] = "named"]
        /\ content' = [content EXCEPT ![file[p]] = p]
        /\ UNCHANGED file
    BY <1>4 DEF WritePid, Goes
  <2>2. FilesInv'
    BY <1>0, <1>1, <2>1 DEF DaemonTypeOK, LockInv, FilesInv, Alive, Locked
  <2>3. TargetInv'
    BY <1>0, <1>1, <2>1 DEF DaemonTypeOK, LockInv, TargetInv, Locked
  <2>4. CleanInv'
    BY <1>0, <1>1, <2>1 DEF DaemonTypeOK, LockInv, CleanInv, Clean, Alive
  <2> QED BY <2>2, <2>3, <2>4 DEF LockInv
<1>5. CASE SetHandler(p)
  <2>1. pc[p] = "named" /\ pc' = [pc EXCEPT ![p] = "running"]
        /\ UNCHANGED <<file, content>>
    BY <1>5 DEF SetHandler, Goes
  <2>2. FilesInv'
    BY <1>0, <1>1, <2>1 DEF DaemonTypeOK, LockInv, FilesInv, Alive, Locked
  <2>3. TargetInv'
    BY <1>0, <1>1, <2>1 DEF DaemonTypeOK, LockInv, TargetInv, Locked
  <2>4. CleanInv'
    BY <1>0, <1>1, <2>1 DEF DaemonTypeOK, LockInv, CleanInv, Clean, Alive
  <2> QED BY <2>2, <2>3, <2>4 DEF LockInv
<1> QED
  BY <1>2, <1>3, <1>4, <1>5 DEF Daemonizes, TakeLock, DefaultTerm

(* daemon_sig() leaves no pid file, and no clean daemon is there that could   *)
(* miss it.                                                                  *)
LEMMA SignalLock ==
    ASSUME TypeInv, LockInv, NEW p \in Procs,
           Stopped(p) \/ Swallows(p) \/ ServiceEnds(p)
    PROVE  LockInv'
<1>0. DaemonTypeOK /\ NoProc \notin Procs
  BY NoProcIsNoProcess DEF TypeInv, TypeOK
<1>1. /\ pc[p] = "running" /\ p \in signalled
      /\ pc' = pc \/ pc' = [pc EXCEPT ![p] = "leaving"]
      /\ term' \subseteq term
      /\ pidfile' = NoProc \/ (pidfile' = pidfile /\ platform # "linux")
      /\ UNCHANGED <<file, content, target, signalled, overlapped, platform>>
  BY DEF LockInv, TargetInv, Stopped, Swallows, ServiceEnds, daemon_sig, Leaves,
         Goes, At, script
<1>2. FilesInv'
  BY <1>0, <1>1 DEF DaemonTypeOK, LockInv, FilesInv, Alive, Locked
<1>3. TargetInv'
  BY <1>0, <1>1 DEF DaemonTypeOK, LockInv, TargetInv, Locked
<1>4. \A q \in Clean : ~Alive(q)
  BY <1>1 DEF LockInv, CleanInv, Alive
<1>5. CleanInv'
  BY <1>0, <1>1, <1>4 DEF DaemonTypeOK, LockInv, CleanInv, Clean, Alive
<1> QED BY <1>2, <1>3, <1>5 DEF LockInv

(* The pid that is read is that of the process that has locked the file; so   *)
(* if it is alive when it is killed, no other one is clean.                  *)
LEMMA StopsLock ==
    ASSUME TypeInv, LockInv, Stops
    PROVE  LockInv'
<1>0. DaemonTypeOK /\ NoProc \notin Procs
  BY NoProcIsNoProcess DEF TypeInv, TypeOK
<1>1. CASE ReadPid
  <2>1. /\ pidfile \in Procs /\ target' = content[pidfile]
        /\ UNCHANGED <<pc, file, pidfile, content, term, signalled, overlapped,
                       platform>>
    BY <1>0, <1>1 DEF Stops, ReadPid, daemon, signals, DaemonTypeOK
  <2>2. FilesInv'
    BY <2>1 DEF LockInv, FilesInv, Alive
  <2>3. target' # NoProc =>
            /\ target' \in Procs
            /\ \/ pc[target'] = "dead"
               \/ pc[target'] \in Locked \ {"locked"} /\ file[target'] = pidfile
    BY <1>0, <2>1 DEF DaemonTypeOK, LockInv, FilesInv
  <2>4. TargetInv'
    BY <1>0, <2>1, <2>3 DEF LockInv, TargetInv
  <2>5. CleanInv'
    BY <2>1, <2>3 DEF LockInv, CleanInv, Clean, Alive
  <2> QED BY <2>2, <2>4, <2>5 DEF LockInv
<1>2. CASE Kill
  <2>1. /\ target \in Procs /\ target' = NoProc
        /\ UNCHANGED <<pc, file, pidfile, content, platform>>
    BY <1>0, <1>2 DEF Stops, Kill, daemon, DaemonTypeOK
  <2>2. FilesInv'
    BY <2>1 DEF LockInv, FilesInv, Alive
  <2>3. platform = "linux"
    BY <1>0, <2>1 DEF LockInv, TargetInv
  <2>4. CASE ~Alive(target)
    <3>1. UNCHANGED <<term, signalled, overlapped>>
      BY <1>2, <2>4 DEF Kill, signals
    <3> QED
      BY <2>1, <2>2, <3>1 DEF LockInv, TargetInv, CleanInv, Clean, Alive
  <2>5. CASE Alive(target)
    <3>1. /\ term' = term \union {target}
          /\ signalled' = signalled \union {target}
          /\ overlapped' = overlapped \union {p \in Procs : pc[p] = "opened"}
      BY <1>2, <2>5 DEF Kill
    <3>2. \A p \in Clean' : ~Alive(p)
      <4> SUFFICES ASSUME NEW p \in Clean', Alive(p)
                   PROVE  FALSE
        OBVIOUS
      <4>1. p \in Clean /\ p \in Procs /\ p # target /\ pc[p] # "opened"
        BY <3>1 DEF Clean
      <4>2. pc[p] \in Locked
        BY <1>0, <4>1 DEF DaemonTypeOK, Alive
      <4>3. file[p] = pidfile /\ file[target] = pidfile /\ pidfile # NoProc
        BY <1>0, <2>1, <2>3, <2>5, <4>1 DEF LockInv, CleanInv
      <4>4. pc[target] \in Locked
        BY <1>0, <2>1, <2>5 DEF LockInv, TargetInv, Alive
      <4> QED
        BY <2>1, <4>1, <4>2, <4>3, <4>4 DEF LockInv, FilesInv
    <3>3. TargetInv'
      BY <1>0, <2>1, <2>3, <2>5, <3>1 DEF LockInv, TargetInv, Alive
    <3>4. CleanInv'
      BY <2>1, <2>3, <3>2 DEF CleanInv, Alive
    <3> QED BY <2>2, <3>3, <3>4 DEF LockInv
  <2> QED BY <2>4, <2>5
<1> QED BY <1>1, <1>2 DEF Stops

(* On a mac and on windows whoever starts srdns keeps it to one process.      *)
LEMMA ServiceLock ==
    ASSUME TypeInv, LockInv, NEW p \in Procs, Launches(p) \/ OnStop(p)
    PROVE  LockInv'
<1>0. DaemonTypeOK /\ NoProc \notin Procs
  BY NoProcIsNoProcess DEF TypeInv, TypeOK
<1>1. platform # "linux" /\ UNCHANGED <<platform, file, pidfile, content, target>>
  BY DEF Launches, OnStop, daemon, script
<1>2. CASE Launches(p)
  <2>1. /\ pc[p] = "none" /\ pc' = [pc EXCEPT ![p] = "running"]
        /\ \A q \in Procs : Alive(q) => q \in signalled
        /\ UNCHANGED <<term, signalled>>
    BY <1>2, NextIsNew DEF Launches, Goes
  <2>2. overlapped' = IF \E q \in Procs : Alive(q)
                      THEN overlapped \union {p} ELSE overlapped
    BY <1>2 DEF Launches
  <2>3. FilesInv'
    <3>1. file[p] = NoProc /\ \A f \in Procs : content[f] # p
      BY <1>0, <2>1 DEF LockInv, FilesInv, Alive, Locked
    <3> QED
      BY <1>0, <1>1, <2>1, <3>1 DEF DaemonTypeOK, LockInv, FilesInv, Alive, Locked
  <2>4. TargetInv'
    BY <1>0, <1>1, <2>1 DEF DaemonTypeOK, LockInv, TargetInv, Locked
  <2>5. CleanInv'
    BY <1>0, <1>1, <2>1, <2>2 DEF DaemonTypeOK, LockInv, TargetInv, CleanInv,
                                  Clean, Alive
  <2> QED BY <2>3, <2>4, <2>5 DEF LockInv
<1>3. CASE OnStop(p)
  <2>1. /\ pc[p] = "running" /\ p \notin signalled
        /\ term' = term \union {p} /\ signalled' = signalled \union {p}
        /\ UNCHANGED <<pc, overlapped>>
    BY <1>3 DEF OnStop, daemon
  <2>2. FilesInv'
    BY <1>1, <2>1 DEF LockInv, FilesInv, Alive
  <2>3. TargetInv'
    BY <1>1, <2>1 DEF LockInv, TargetInv
  <2>4. CleanInv'
    BY <1>1, <2>1 DEF LockInv, CleanInv, Clean, Alive
  <2> QED BY <2>2, <2>3, <2>4 DEF LockInv
<1> QED BY <1>2, <1>3

LEMMA NextLock == TypeInv /\ LockInv /\ [Next]_vars => LockInv'
<1> SUFFICES ASSUME TypeInv, LockInv, [Next]_vars PROVE LockInv'
  OBVIOUS
<1>1. ASSUME NEW p \in Procs, BindRaises(p) \/ Ends(p) \/ IsKilled(p)
      PROVE  LockInv'
  BY <1>1, GoneLock DEF BindRaises, Raises, Ends, Exits, IsKilled, Dies, Closes
<1>2. ASSUME NEW p \in Procs, Serves(p), ~BindRaises(p)
      PROVE  LockInv'
  BY <1>2, QuietLock DEF Serves, Save, BeginCopy, EndCopy, Bind, Accept,
                         Truncate, Write, Configure, SwitchOff, SwitchOn, Answer
<1>3. ASSUME NEW p \in Procs, Works(p) PROVE LockInv'
  <2>1. CASE HandlerRaises(p)
    BY <2>1, QuietLock DEF HandlerRaises
  <2> QED BY <1>1, <1>2, <1>3, <2>1, DaemonizesLock, SignalLock DEF Works
<1>4. ASSUME NEW p \in Procs, Starts(p) \/ Launches(p) \/ OnStop(p) \/ IsKilled(p)
      PROVE  LockInv'
  BY <1>1, <1>4, StartLock, ServiceLock
<1>5. CASE Stops
  BY <1>5, StopsLock
<1>6. CASE Ask \/ Refused \/ TimeWaitEnds
  BY <1>6, QuietLock DEF Ask, Refused, TimeWaitEnds
<1>7. CASE UNCHANGED vars
  BY <1>7, QuietLock DEF vars
<1> QED BY <1>3, <1>4, <1>5, <1>6, <1>7 DEF Next

LEMMA LockInvHolds == Init /\ [][Next]_vars => []LockInv
BY InitLock, NextLock, TypeInvHolds, PTL

LEMMA CleanDaemonIsAlone ==
    ASSUME LockInv, NEW p \in Clean, NEW q \in Clean,
           pc[p] \in Locked, pc[q] \in Locked
    PROVE  p = q
<1>1. /\ Alive(p) /\ Alive(q)
      /\ p \in Procs \ signalled /\ q \in Procs \ signalled
  BY DEF Alive, Locked, Clean
<1>2. CASE platform = "linux"
  <2>1. file[p] = pidfile /\ file[q] = pidfile /\ pidfile # NoProc
    BY <1>1, <1>2 DEF LockInv, CleanInv
  <2> QED BY <1>1, <2>1 DEF LockInv, FilesInv
<1>3. CASE platform # "linux"
  BY <1>1, <1>3 DEF LockInv, CleanInv
<1> QED BY <1>2, <1>3

(* However many starts there are: the lock of the pid file (stoneridge.py's   *)
(* daemonize), launchd and the service manager keep a daemon to one process, *)
(* among those that were not told to stop and waited for those that were.    *)
THEOREM OneDaemon == Spec => []OneDaemonIfStopsAreWaitedFor
<1>1. LockInv => OneDaemonIfStopsAreWaitedFor
  BY CleanDaemonIsAlone DEF OneDaemonIfStopsAreWaitedFor, Clean
<1> QED BY <1>1, LockInvHolds, PTL DEF Spec

(* Such a daemon on linux can be told to stop: the pid file is the file that  *)
(* it has locked, with its own pid or, after a start that failed, empty.     *)
THEOREM PidFileOfTheDaemon == Spec => []PidFileIsOfTheDaemon
<1>1. LockInv => PidFileIsOfTheDaemon
  <2> SUFFICES ASSUME LockInv, platform = "linux", NEW p \in Clean,
                      pc[p] = "running"
               PROVE  pidfile = file[p] /\ content[pidfile] \in {p, NoProc}
    BY DEF PidFileIsOfTheDaemon, Clean
  <2>1. Alive(p) /\ p \in Procs /\ pc[p] \in Locked \ {"locked"}
    BY DEF Alive, Locked, Clean
  <2>2. pidfile = file[p]
    BY <2>1 DEF LockInv, CleanInv
  <2> QED BY <2>1, <2>2 DEF LockInv, FilesInv
<1> QED BY <1>1, LockInvHolds, PTL DEF Spec
-----------------------------------------------------------------------------
(* The backup.  As long as stops are waited for there is one daemon, clean    *)
(* or not.                                                                   *)
SingleInv ==
    StopsAreWaitedFor =>
        \A p \in Procs, q \in signalled : Alive(p) /\ Alive(q) => p = q

(* Nobody is on the test network before there is a backup, and nobody makes   *)
(* one afterwards.                                                           *)
BackupInv ==
    /\ platform = "windows" =>
          /\ backup = "none"
          /\ \A p \in Procs : ~At(p, "copying") /\ ~At(p, "filling")
    /\ StopsAreWaitedFor /\ platform # "windows" /\ (platform # "mac" \/ ~unsaved) =>
          /\ backup # "test"
          /\ backup = "none" => servers # "test"
          /\ \A p \in Procs :
                /\ At(p, "copying") \/ At(p, "filling") => servers # "test"
                /\ pc[p] = "running" /\ at[p] \in Ready \union {"binding"} =>
                      backup # "none"

(* If nobody was killed in the middle of it, the backup is whole before srdns *)
(* serves.                                                                   *)
RestoreInv ==
    StopsAreWaitedFor /\ ~unsaved /\ platform # "windows" =>
        /\ servers = "original" \/ backup = "original"
        /\ backup = "partial" => \E p \in Procs : At(p, "filling")
        /\ \A p \in Procs :
              /\ At(p, "copying") \/ At(p, "filling") => servers = "original"
              /\ pc[p] = "running" /\ at[p] \in Ready \union {"binding"} =>
                    backup = "original"

HalfInv ==
    /\ platform = "mac" => servers # "partial"
    /\ HalfSwitchedOnlyByFaults

SavesInv == BackupInv /\ RestoreInv /\ HalfInv

LEMMA DaemonIsAlone ==
    ASSUME LockInv, SingleInv, StopsAreWaitedFor,
           NEW p \in Procs, NEW q \in Procs, pc[p] \in Locked, pc[q] \in Locked
    PROVE  p = q
<1>1. Alive(p) /\ Alive(q)
  BY DEF Alive, Locked
<1>2. CASE p \in signalled \/ q \in signalled
  BY <1>1, <1>2 DEF SingleInv
<1>3. CASE p \notin signalled /\ q \notin signalled
  BY <1>3, CleanDaemonIsAlone DEF StopsAreWaitedFor, Clean
<1> QED BY <1>2, <1>3

LEMMA NextSingle == TypeInv /\ LockInv /\ SingleInv /\ [Next]_vars => SingleInv'
<1> SUFFICES ASSUME TypeInv, LockInv, SingleInv, [Next]_vars,
                    StopsAreWaitedFor',
                    NEW p \in Procs, NEW q \in signalled', Alive(p)', Alive(q)'
             PROVE  p = q
  BY DEF SingleInv
<1>0. DaemonTypeOK /\ NoProc \notin Procs
  BY NoProcIsNoProcess DEF TypeInv, TypeOK
<1> DEFINE NobodyNew ==
        /\ signalled' = signalled /\ overlapped' = overlapped
        /\ \A r \in Procs : Alive(r)' => Alive(r)
<1>1. ASSUME NobodyNew PROVE p = q
  BY <1>0, <1>1 DEF DaemonTypeOK, SingleInv, StopsAreWaitedFor
<1> HIDE DEF NobodyNew
<1>2. ASSUME NEW r \in Procs,
             \/ Serves(r) \/ Daemonizes(r) \/ Stopped(r) \/ Swallows(r)
             \/ HandlerRaises(r) \/ ServiceEnds(r) \/ Ends(r) \/ IsKilled(r)
      PROVE  NobodyNew
  <2>1. signalled' = signalled /\ overlapped' = overlapped
    BY <1>2 DEF Serves, Daemonizes, Stopped, Swallows, HandlerRaises,
       ServiceEnds, Ends, IsKilled, Save, BeginCopy, EndCopy, Bind, BindRaises, Accept, Truncate,
       Write, Configure, SwitchOff, SwitchOn, Answer, TakeLock, WritePid,
       SetHandler, DefaultTerm, daemon_sig, Raises, Exits, Dies, signals
  <2>2. \/ UNCHANGED pc
        \/ pc' = [pc EXCEPT ![r] = "dead"]
        \/ pc[r] \notin {"none", "dead"}
              /\ \E place \in Locked : pc' = [pc EXCEPT ![r] = place]
    BY <1>2 DEF Serves, Daemonizes, Stopped, Swallows, HandlerRaises,
       ServiceEnds, Ends, IsKilled, Save, BeginCopy, EndCopy, Bind, BindRaises, Accept, Truncate,
       Write, Configure, SwitchOff, SwitchOn, Answer, TakeLock, WritePid,
       SetHandler, DefaultTerm, daemon_sig, Raises, Exits, Dies, daemon, Leaves,
       IsGone, Goes, Locked, At
  <2>3. \A x \in Procs : Alive(x)' => Alive(x)
    BY <1>0, <2>2 DEF DaemonTypeOK, Alive
  <2> QED BY <2>1, <2>3 DEF NobodyNew
<1>3. ASSUME NEW r \in Procs, Starts(r) \/ Launches(r) PROVE p = q
  <2>1. pc[r] = "none" /\ r \notin signalled /\ signalled' = signalled
    BY <1>3, NextIsNew DEF Starts, Start, Launches, LockInv, TargetInv
  <2>2. \A x \in Procs \ {r} : Alive(x)' => Alive(x)
    BY <1>0, <1>3 DEF DaemonTypeOK, Starts, Start, Launches, Goes, Alive
  <2>3. \A x \in signalled : ~Alive(x)
    BY <1>0, <1>3 DEF Starts, Start, Launches, StopsAreWaitedFor, DaemonTypeOK
  <2> QED BY <1>0, <2>1, <2>2, <2>3 DEF DaemonTypeOK
<1>4. ASSUME NEW r \in Procs, OnStop(r) PROVE p = q
  <2>1. /\ pc[r] = "running" /\ r \notin signalled /\ platform # "linux"
        /\ signalled' = signalled \union {r}
        /\ UNCHANGED <<pc, overlapped>>
    BY <1>4 DEF OnStop, daemon
  <2>2. Alive(p) /\ Alive(q) /\ Alive(r) /\ StopsAreWaitedFor
    BY <2>1 DEF Alive, StopsAreWaitedFor
  <2>3. \A x \in Procs : Alive(x) => x = r
    BY <2>1, <2>2 DEF SingleInv, LockInv, CleanInv
  <2> QED BY <1>0, <2>1, <2>2, <2>3 DEF DaemonTypeOK
<1>5. CASE Stops
  <2>1. CASE Kill /\ Alive(target)
    <3>1. /\ target \in Procs /\ signalled' = signalled \union {target}
          /\ overlapped' = overlapped \union {x \in Procs : pc[x] = "opened"}
          /\ UNCHANGED pc
      BY <1>0, <2>1 DEF Kill, daemon, DaemonTypeOK
    <3>2. StopsAreWaitedFor /\ \A x \in Procs : Alive(x) => pc[x] \in Locked
      BY <1>0, <3>1 DEF StopsAreWaitedFor, DaemonTypeOK, Alive
    <3>3. Alive(p) /\ Alive(q) /\ q \in Procs
      BY <1>0, <3>1 DEF Alive, DaemonTypeOK
    <3> QED BY <3>2, <3>3, DaemonIsAlone
  <2>2. CASE ~(Kill /\ Alive(target))
    BY <1>1, <1>5, <2>2 DEF NobodyNew, Stops, ReadPid, Kill, daemon, signals, Alive
  <2> QED BY <2>1, <2>2
<1>6. CASE Ask \/ Refused \/ TimeWaitEnds \/ UNCHANGED vars
  BY <1>1, <1>6 DEF NobodyNew, Ask, Refused, TimeWaitEnds, vars, daemon, signals,
                    Alive
<1> QED BY <1>1, <1>2, <1>3, <1>4, <1>5, <1>6 DEF Next, Works

(* Steps that write neither the servers nor the backup: a process may end or  *)
(* go back to serve, if what it leaves half done is noted.                   *)
WritesNothing ==
    /\ UNCHANGED <<platform, servers, backup>>
    /\ StopsAreWaitedFor' => StopsAreWaitedFor
    /\ unsaved => unsaved'
    /\ broken => broken'
    /\ \A p \in Procs :
          /\ pc'[p] = "running" =>
                \/ at'[p] = "saving"
                \/ pc[p] = "running" /\ at'[p] = at[p]
                \/ pc[p] = "running" /\ at[p] \in InRequest /\ at'[p] = "serving"
          /\ At(p, "filling") => At(p, "filling")' \/ unsaved'
          /\ At(p, "writing") => At(p, "writing")' \/ broken'

LEMMA SavesStay ==
    ASSUME SavesInv, WritesNothing
    PROVE  SavesInv'
<1>1. BackupInv'
  BY DEF SavesInv, WritesNothing, BackupInv, At, Ready, InRequest
<1>2. RestoreInv'
  BY DEF SavesInv, WritesNothing, RestoreInv, At, Ready, InRequest
<1>3. HalfInv'
  BY DEF SavesInv, WritesNothing, HalfInv, HalfSwitchedOnlyByFaults, At
<1> QED BY <1>1, <1>2, <1>3 DEF SavesInv

LEMMA DaemonWritesNothing ==
    ASSUME TypeInv, NEW p \in Procs,
           Starts(p) \/ Launches(p) \/ OnStop(p) \/ Daemonizes(p)
    PROVE  WritesNothing
<1> USE DEF daemon, script, signals, srdns, client, ghosts
<1>1. DaemonTypeOK /\ ControlInv
  BY DEF TypeInv, TypeOK
<1>2. UNCHANGED <<platform, servers, backup, at, unsaved, broken>>
  BY DEF Starts, Launches, OnStop, Daemonizes
<1>3. StopsAreWaitedFor' => StopsAreWaitedFor
  BY DEF StopsAreWaitedFor, Starts, Start, Launches, OnStop, Daemonizes,
         TakeLock, WritePid, SetHandler, DefaultTerm
<1>4. \A q \in Procs :
          /\ pc'[q] = "running" => pc[q] = "running" \/ at[q] = "saving"
          /\ pc[q] = "running" => pc'[q] = "running" \/ at[q] = "saving"
  <2>1. CASE Starts(p) \/ Launches(p)
    BY <1>1, <2>1, NextIsNew DEF DaemonTypeOK, ControlInv, Starts, Start,
                                 Launches, Goes
  <2>2. CASE OnStop(p) \/ Daemonizes(p)
    BY <1>1, <2>2 DEF DaemonTypeOK, ControlInv, Daemonizes, TakeLock, WritePid,
                      SetHandler, DefaultTerm, IsGone, Goes, OnStop
  <2> QED BY <2>1, <2>2
<1> QED BY <1>2, <1>3, <1>4 DEF WritesNothing, At

LEMMA EndWritesNothing ==
    ASSUME TypeInv, NEW p \in Procs,
           \/ BindRaises(p) \/ Ends(p) \/ IsKilled(p)
           \/ Stopped(p) \/ Swallows(p) \/ HandlerRaises(p) \/ ServiceEnds(p)
    PROVE  WritesNothing
<1> USE DEF script, signals, srdns, client, ghosts
<1>1. TypeOK /\ DaemonTypeOK /\ ControlInv
  BY DEF TypeInv, TypeOK
<1>2. UNCHANGED <<platform, servers, backup, overlapped>>
  BY DEF BindRaises, Raises, Ends, Exits, IsKilled, Dies, Closes, Stopped,
         Swallows, HandlerRaises, ServiceEnds, daemon_sig
<1>b. (unsaved => unsaved') /\ (broken => broken')
  <2>1. CASE BindRaises(p) \/ Ends(p) \/ ServiceEnds(p)
    BY <2>1 DEF BindRaises, Ends, ServiceEnds
  <2>2. CASE IsKilled(p)
    BY <2>2 DEF IsKilled
  <2>3. CASE Stopped(p)
    BY <2>3 DEF Stopped
  <2>4. CASE Swallows(p)
    BY <2>4 DEF Swallows
  <2>5. CASE HandlerRaises(p)
    BY <2>5 DEF HandlerRaises
  <2> QED BY <2>1, <2>2, <2>3, <2>4, <2>5
<1>3. /\ At(p, "filling") => At(p, "filling")' \/ unsaved'
      /\ At(p, "writing") => At(p, "writing")' \/ broken'
  BY DEF BindRaises, Raises, Ends, Exits, IsKilled, Stopped, Swallows,
     HandlerRaises,
         ServiceEnds, Busy, At
<1>4. \/ pc'[p] # "running"
      \/ pc[p] = "running" /\ at[p] \in InRequest /\ at'[p] = "serving"
  BY <1>1 DEF TypeOK, DaemonTypeOK, BindRaises, Raises, Ends, Exits, IsKilled,
     Dies, Stopped, Swallows, HandlerRaises, ServiceEnds, Busy, InRequest,
     IsGone, Goes, Leaves, Moves, daemon_sig, daemon
<1>5. \A q \in Procs \ {p} : pc'[q] = pc[q] /\ at'[q] = at[q]
  BY <1>1 DEF TypeOK, DaemonTypeOK, BindRaises, Raises, Ends, Exits, IsKilled,
     Dies, Stopped, Swallows, HandlerRaises, ServiceEnds, IsGone, Goes, Leaves,
     Moves, Closes, daemon_sig, daemon
<1> QED
  BY <1>2, <1>b, <1>3, <1>4, <1>5 DEF WritesNothing, StopsAreWaitedFor, At

LEMMA ClientWritesNothing ==
    ASSUME Stops \/ Ask \/ Refused \/ TimeWaitEnds \/ UNCHANGED vars
    PROVE  WritesNothing
<1>1. UNCHANGED <<pc, at, platform, servers, backup, unsaved, broken>>
  BY DEF Stops, ReadPid, Kill, Ask, Refused, TimeWaitEnds, vars, daemon, srdns,
         ghosts
<1>2. StopsAreWaitedFor' => StopsAreWaitedFor
  BY DEF Stops, ReadPid, Kill, Ask, Refused, TimeWaitEnds, vars, signals,
         StopsAreWaitedFor
<1> QED BY <1>1, <1>2 DEF WritesNothing, At

(* What the only daemon writes is whole when it goes on.                      *)
LEMMA ServesSaves ==
    ASSUME TypeInv, LockInv, SingleInv, SavesInv, NEW p \in Procs,
           \/ Save(p) \/ BeginCopy(p) \/ EndCopy(p) \/ Bind(p) \/ Accept(p)
           \/ Truncate(p) \/ Write(p) \/ Configure(p)
           \/ SwitchOff(p) \/ SwitchOn(p) \/ Answer(p)
    PROVE  SavesInv'
<1> USE DEF daemon, signals, client, ghosts, At, Moves
<1>1. TypeOK /\ DaemonTypeOK /\ ControlInv
  BY DEF TypeInv, TypeOK
<1>2. /\ pc[p] = "running" /\ UNCHANGED <<pc, overlapped, platform>>
      /\ StopsAreWaitedFor' = StopsAreWaitedFor
  BY DEF StopsAreWaitedFor, Save, BeginCopy, EndCopy, Bind, Accept, Truncate,
         Write, Configure, SwitchOff, SwitchOn, Answer
<1>3. StopsAreWaitedFor => \A q \in Procs : pc[q] = "running" => q = p
  BY <1>2, DaemonIsAlone DEF Locked
<1>4. unsaved => unsaved'
  <2>1. CASE Save(p)
    BY <2>1 DEF Save
  <2>2. CASE ~Save(p)
    BY <2>2 DEF BeginCopy, EndCopy, Bind, Accept, Truncate, Write, Configure,
                SwitchOff, SwitchOn, Answer
  <2> QED BY <2>1, <2>2
<1>5. CASE Save(p) \/ BeginCopy(p) \/ EndCopy(p)
  <2>1. servers' = servers /\ broken' = broken
    BY <1>5 DEF Save, BeginCopy, EndCopy
  <2>2. BackupInv'
    BY <1>1, <1>2, <1>3, <1>4, <1>5, <2>1
       DEF TypeOK, Contents, SavesInv, BackupInv, Ready, InRequest, Save,
           BeginCopy, EndCopy
  <2>3. RestoreInv'
    BY <1>1, <1>2, <1>3, <1>4, <1>5, <2>1
       DEF TypeOK, Contents, SavesInv, BackupInv, RestoreInv, Ready, InRequest,
           Save, BeginCopy, EndCopy
  <2>4. HalfInv'
    BY <1>1, <1>2, <1>4, <1>5, <2>1
       DEF TypeOK, SavesInv, HalfInv, HalfSwitchedOnlyByFaults, Save, BeginCopy,
           EndCopy
  <2> QED BY <2>2, <2>3, <2>4 DEF SavesInv
<1>6. CASE Bind(p) \/ Accept(p) \/ Answer(p)
  <2>1. UNCHANGED <<servers, backup, unsaved, broken>>
    BY <1>6 DEF Bind, Accept, Answer
  <2>2. BackupInv'
    BY <1>1, <1>2, <1>6, <2>1
       DEF TypeOK, SavesInv, BackupInv, Ready, InRequest, Bind, Accept, Answer
  <2>3. RestoreInv'
    BY <1>1, <1>2, <1>6, <2>1
       DEF TypeOK, SavesInv, RestoreInv, Ready, InRequest, Bind, Accept, Answer
  <2>4. HalfInv'
    BY <1>1, <1>2, <1>6, <2>1
       DEF TypeOK, SavesInv, HalfInv, HalfSwitchedOnlyByFaults, Bind, Accept,
           Answer
  <2> QED BY <2>2, <2>3, <2>4 DEF SavesInv
<1>7. CASE Truncate(p) \/ Write(p) \/ Configure(p) \/ SwitchOff(p) \/ SwitchOn(p)
  <2>1. /\ at[p] \in InRequest /\ UNCHANGED <<backup, unsaved, request>>
        /\ at' = [at EXCEPT ![p] = IF Truncate(p) \/ SwitchOff(p) THEN "writing"
                                   ELSE "answering"]
    BY <1>7 DEF InRequest, Truncate, Write, Configure, SwitchOff, SwitchOn
  <2>2. request \in {"set", "reset"}
    BY <1>1, <1>2, <2>1 DEF TypeOK, ControlInv
  <2>3. BackupInv'
    BY <1>1, <1>2, <1>3, <1>7, <2>1
       DEF TypeOK, SavesInv, BackupInv, Ready, InRequest
  <2>4. RestoreInv'
    BY <1>1, <1>2, <1>3, <1>7, <2>1
       DEF TypeOK, SavesInv, RestoreInv, Ready, InRequest
  <2>5. platform = "mac" => servers' # "partial"
    BY <1>1, <1>7, <2>2 DEF SavesInv, HalfInv, Truncate, Write, Configure,
                            SwitchOff, SwitchOn, Requested
  <2>6. platform = "linux" /\ StopsAreWaitedFor /\ ~unsaved =>
            backup = "original"
    BY <1>2, <2>1 DEF SavesInv, RestoreInv, Ready
  <2>7. CASE Truncate(p) \/ SwitchOff(p)
    <3>1. At(p, "writing")'
      BY <1>1, <1>2, <2>1, <2>7 DEF TypeOK
    <3> QED
      BY <1>2, <2>3, <2>4, <2>5, <3>1
         DEF SavesInv, HalfInv, HalfSwitchedOnlyByFaults
  <2>8. CASE Write(p) \/ Configure(p) \/ SwitchOn(p)
    <3>1. StopsAreWaitedFor /\ ~unsaved /\ servers' = "partial" => broken'
      BY <1>1, <2>2, <2>5, <2>6, <2>8 DEF Write, Configure, SwitchOn, Requested
    <3> QED
      BY <1>2, <2>1, <2>3, <2>4, <2>5, <3>1
         DEF SavesInv, HalfInv, HalfSwitchedOnlyByFaults
  <2> QED BY <1>7, <2>7, <2>8
<1> QED BY <1>5, <1>6, <1>7

LEMMA SavesInvHolds == Init /\ [][Next]_vars => []SavesInv
<1>1. Init => SingleInv /\ SavesInv
  BY DEF Init, DaemonInit, SingleInv, SavesInv, BackupInv, RestoreInv, HalfInv,
         HalfSwitchedOnlyByFaults, At, Alive
<1>2. TypeInv /\ LockInv /\ SingleInv /\ SavesInv /\ [Next]_vars => SavesInv'
  <2> SUFFICES ASSUME TypeInv, LockInv, SingleInv, SavesInv, [Next]_vars
               PROVE  SavesInv'
    OBVIOUS
  <2>1. ASSUME NEW p \in Procs, Works(p) PROVE SavesInv'
    BY <2>1, SavesStay, ServesSaves, DaemonWritesNothing, EndWritesNothing
       DEF Works, Serves
  <2>2. ASSUME NEW p \in Procs,
               Starts(p) \/ Launches(p) \/ OnStop(p) \/ IsKilled(p)
        PROVE  SavesInv'
    BY <2>2, SavesStay, DaemonWritesNothing, EndWritesNothing
  <2>3. CASE Stops \/ Ask \/ Refused \/ TimeWaitEnds \/ UNCHANGED vars
    BY <2>3, SavesStay, ClientWritesNothing
  <2> QED BY <2>1, <2>2, <2>3 DEF Next
<1> QED
  BY <1>1, <1>2, NextSingle, TypeInvHolds, LockInvHolds, PTL

(* save_dns() of srdns.py never takes the servers of the test network for the *)
(* client's own, however often srdns is killed, stopped and started.         *)
THEOREM BackupStaysOriginal == Spec => []BackupIsOriginal
<1>1. SavesInv => BackupIsOriginal
  BY DEF SavesInv, BackupInv, BackupIsOriginal
<1> QED BY <1>1, SavesInvHolds, PTL DEF Spec

(* And it has them before srdns serves: the client can come back.             *)
THEOREM ServersAreSaved == Spec => []ServersCanBeRestored
<1>1. SavesInv => ServersCanBeRestored
  BY DEF SavesInv, RestoreInv, ServersCanBeRestored
<1> QED BY <1>1, SavesInvHolds, PTL DEF Spec

(* set_dns() and reset_dns() leave nothing half done, unless they are cut     *)
(* short or a tool fails; the stop of the windows service does neither.      *)
THEOREM SwitchesAreWhole == Spec => []HalfSwitchedOnlyByFaults
<1>1. SavesInv => HalfSwitchedOnlyByFaults
  BY DEF SavesInv, HalfInv
<1> QED BY <1>1, SavesInvHolds, PTL DEF Spec
=============================================================================
