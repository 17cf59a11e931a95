\* Two tests of different suites, with the options that srrunner passes.
CONSTANTS
    Tests <- TwoTests
    NoTest = NoTest
    MaxPages = 1
    SrTimeout = FALSE
    SrMozAfterPaint = FALSE
    PageTests <- OtherPageTest
    Suites <- TwoSuites
    Suite <- SuiteOf
    Timeout = 2
    MaxClockSteps = 0
    Windows = FALSE
SPECIFICATION Spec
INVARIANT
    EachOutFileIsCollated
