------------------------------- MODULE Builds -------------------------------
(***************************************************************************)
(* From a push to builds on a client: srenqueuer puts pushes on             *)
(* sr_incoming, srmaster has srcloner fetch their builds, and the clients    *)
(* download them.                                                           *)
(***************************************************************************)
EXTENDS BuildStore

vars ==
    <<enqueuerVars, incoming, faults,
      ftpVars, storeVars, clonerVars, clientVars>>

Init == EnqueuerInit /\ StoreInit
Next ==
    \/ EnqueuerStep /\ UNCHANGED <<ftpVars, storeVars, clonerVars, clientVars>>
    \/ StoreStep /\ UNCHANGED <<enqueuerVars, faults>>
    \/ StoreFault /\ UNCHANGED enqueuerVars
Spec == Init /\ [][Next]_vars

TypeOK == EnqueuerTypeOK /\ StoreTypeOK

Holds(r, o, contents) == \A f \in Names : files[r][o][f] \in contents

(* However srcloners end, the disk holds no more than keep builds, one that  *)
(* is being fetched, and one for each srcloner that did not clean up.        *)
DiskIsBounded ==
    keep > 0 =>
        Len(directories) <=
            keep + unclean + (IF phase = "cloning" THEN 1 ELSE 0)

(* srcloner exits cleanly only with the builds of its run in place, unless an *)
(* earlier one left more directories behind than keep: then the cleanup may  *)
(* remove the run that was just fetched for the second time.                 *)
ClonedBuildsAreComplete ==
    phase = "cloned" /\ unclean = 0 =>
        \A o \in AskedSystems[current] :
            Holds(current, o, {"archive", "error page"})

(* A client finds nothing to download only if the builds of its run had been *)
(* removed to make room.                                                     *)
MissedBuildsWereEvicted == missed \subseteq evicted
=============================================================================
