\* Two .js tests and a .page test on windows, with every option of the page
\* loader.
CONSTANTS
    Tests <- ThreeTests
    NoTest = NoTest
    MaxPages = 3
    SrTimeout = TRUE
    SrMozAfterPaint = TRUE
    PageTests <- OnePageTest
    Suites <- TwoSuites
    Suite <- SuiteOf
    Timeout = 3
    MaxClockSteps = 1
    Windows = TRUE
SPECIFICATION Spec
INVARIANTS
    TypeOK
    ReportsAreWhole
    SucceededTestsSaved
    SuitesAreReported
PROPERTY
    RunnerEnds
