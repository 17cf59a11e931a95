\* Every job settles, with one redelivery.
CONSTANTS
    Requests <- OnePush
    Nightlies = {}
    NETCONFIGS <- OneNetconfig
    OPERATING_SYSTEMS <- BothSystems
    WebClients <- OneWindows
    AskedNetconfigs <- AsksForAllNetconfigs
    AskedSystems <- AsksForAllSystems
    MaxAttempts = 2
    MaxFailures = 1
    MaxLosses = 0
SPECIFICATION FairSpec
PROPERTIES
    KeepsTheLedger
\* The pipeline stops when every run is reported.
CHECK_DEADLOCK FALSE
