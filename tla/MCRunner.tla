------------------------------ MODULE MCRunner ------------------------------
(***************************************************************************)
(* Small instances of Runner: a page test and two others, of which one has  *)
(* the same suite as the page test.                                         *)
(***************************************************************************)
EXTENDS Runner

ThreeTests == {"basic.js", "other.js", "basic.page"}
TwoTests == {"basic.js", "other.page"}
OnePageTest == {"basic.page"}
OtherPageTest == {"other.page"}
TwoSuites == {"basic", "other"}

SuiteOf ==
    [t \in Tests |->
        IF t \in {"basic.js", "basic.page"} THEN "basic" ELSE "other"]
=============================================================================
