---------------------------- MODULE PageLoader ----------------------------
(***************************************************************************)
(* srpl.js, which loads the pages of a .page test one after the other in a  *)
(* firefox.  pending are the callbacks that are registered: timers, and     *)
(* listeners for events that may come or not.  Firefox quits some time      *)
(* after it is asked to; callbacks that are due may come first.             *)
(*                                                                         *)
(* The branches for a remote browser are left out: srpl.xul has none.       *)
(***************************************************************************)
EXTENDS Srdata

CONSTANTS
    PageTests,        \* the tests that end in .page; the others end in .js
    MaxPages,         \* bound: pages of a test
    SrTimeout,        \* whether firefox is given -srtimeout
    SrMozAfterPaint   \* whether firefox is given -srmozafterpaint

ASSUME PageLoaderAssumption ==
    /\ PageTests \subseteq Tests
    /\ MaxPages \in Nat \ {0}
    /\ SrTimeout \in BOOLEAN
    /\ SrMozAfterPaint \in BOOLEAN

VARIABLES
    pages,      \* pages[t]: how many pages test t has
    page,       \* pageIndex + 1
    pending,
    quitting    \* goQuitApplication() was called

loader == <<page, pending, quitting>>

PageLoaderTypeOK ==
    /\ pages \in [PageTests -> 0 .. MaxPages]
    /\ page \in 1 .. MaxPages
    /\ pending \subseteq {"plLoadPage", "loadFail", "plLoadHandler",
                          "waitForPainted", "plPainted"}
    /\ quitting \in BOOLEAN

PageLoaderInit ==
    /\ pages \in [PageTests -> 0 .. MaxPages]
    /\ page = 1
    /\ pending = {}
    /\ quitting = FALSE
-----------------------------------------------------------------------------
(* plStop(true).  It takes its paint listener off the browser; plLoadHandler *)
(* had put it on the window, where it stays.                                 *)
ForcedStop(rest) ==
    /\ pending' = rest \ {"plLoadHandler"}
    /\ quitting' = TRUE

(* plStop(false), up to the first half of do_save_results.                   *)
Stop(rest) ==
    /\ page' = 1
    /\ OpensOutput
    /\ pending' = rest
    /\ UNCHANGED quitting

(* Its other half.  What do_save_results throws is caught.                   *)
StopSaved ==
    /\ at = "saving"
    /\ at' = "looping"
    /\ WritesOutput \/ UNCHANGED out
    /\ ForcedStop(pending)
    /\ UNCHANGED <<proc, results, page>>

(* The window opens.  The page list may be unreadable, or empty: then there  *)
(* is no return after plStop(true), and the timer is set all the same.       *)
plInit ==
    /\ at = "starting"
    /\ at' = "looping"
    /\ page' = 1
    /\ \/ pending' = {"plLoadPage"} /\ quitting' = (pages[test] = 0)
       \/ pending' = {} /\ quitting' = TRUE
    /\ UNCHANGED <<proc, results, out>>

(* handle() of sr-cmdline.js returns early: a firefox without page loader.   *)
NoWindow ==
    /\ at = "starting"
    /\ at' = "looping"
    /\ UNCHANGED <<proc, results, out, loader>>
-----------------------------------------------------------------------------
Due(callback) == at = "looping" /\ callback \in pending
Rest(callback) == pending \ {callback}

(* There is no page to load after an empty list: it throws.                  *)
plLoadPage ==
    /\ Due("plLoadPage")
    /\ pending' = IF page <= pages[test]
                  THEN (pending \ {"plLoadPage", "plPainted"})
                          \union {"plLoadHandler"}
                          \union (IF SrTimeout THEN {"loadFail"} ELSE {})
                  ELSE Rest("plLoadPage")
    /\ UNCHANGED <<proc, script, page, quitting>>

loadFail ==
    /\ Due("loadFail")
    /\ ForcedStop(Rest("loadFail"))
    /\ UNCHANGED <<proc, script, page>>

plLoadHandler ==
    /\ Due("plLoadHandler")
    /\ pending' = Rest("plLoadHandler") \union {"waitForPainted"}
    /\ UNCHANGED <<proc, script, page, quitting>>

(* Faulty: stops when the last page has begun to load.                       *)
NextPageButOne(rest) ==
    IF page + 1 < pages[test]
    THEN /\ page' = page + 1
         /\ pending' = rest \union {"plLoadPage"}
         /\ UNCHANGED <<at, out, quitting>>
    ELSE Stop(rest)

plNextPage(rest) ==
    IF page < pages[test]
    THEN /\ page' = page + 1
         /\ pending' = rest \union {"plLoadPage"}
         /\ UNCHANGED <<at, out, quitting>>
    ELSE Stop(rest)

_loadHandler(rest) ==
    /\ do_write_result(page)
    /\ plNextPage(rest \ {"loadFail"})
    /\ UNCHANGED proc

(* There may be a paint to wait for.                                         *)
waitForPainted ==
    /\ Due("waitForPainted")
    /\ \/ _loadHandler(Rest("waitForPainted"))
       \/ /\ SrMozAfterPaint
          /\ pending' = Rest("waitForPainted") \union {"plPainted"}
          /\ UNCHANGED <<proc, script, page, quitting>>

plPainted == Due("plPainted") /\ _loadHandler(Rest("plPainted"))

(* Firefox exits with 0, whyever it was asked to quit.                       *)
Quits ==
    /\ quitting
    /\ at = "looping"
    /\ proc' = "exited"
    /\ UNCHANGED <<script, loader>>

Crashes ==
    /\ proc' = "crashed"
    /\ UNCHANGED <<script, loader>>

FirefoxStep ==
    \/ plInit \/ NoWindow \/ plLoadPage \/ loadFail \/ plLoadHandler
    \/ waitForPainted \/ plPainted \/ StopSaved \/ Quits \/ Crashes
=============================================================================
