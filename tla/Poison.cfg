\* Two redeliveries of one job on linux.
CONSTANTS
    Requests <- OnePush
    Nightlies = {}
    NETCONFIGS <- OneNetconfig
    OPERATING_SYSTEMS <- OneSystem
    WebClients <- NoSystem
    AskedNetconfigs <- AsksForAllNetconfigs
    AskedSystems <- AsksForAllSystems
    MaxAttempts = 1
    MaxFailures = 2
    MaxLosses = 0
SPECIFICATION FairSpec
PROPERTIES
    EveryJobSettles
\* The pipeline stops when every run is reported.
CHECK_DEADLOCK FALSE
