\* A pushed run and the nightly for windows; a redelivery and a loss.
CONSTANTS
    Requests <- PushAndNightly
    Nightlies = {"nightly"}
    NETCONFIGS <- OneNetconfig
    OPERATING_SYSTEMS <- OneWindows
    WebClients <- OneWindows
    AskedNetconfigs <- AsksForAllNetconfigs
    AskedSystems <- AsksForAllSystems
    MaxAttempts = 2
    MaxFailures = 1
    MaxLosses = 1
SPECIFICATION Spec
INVARIANTS
    TypeOK
    NoJobLost
    TimestampsTellRunsApart
    UnclonedRunsAreNotTested
    AttemptBudget
\* The pipeline stops when every run is reported.
CHECK_DEADLOCK FALSE
