\* A pushed run, and the attempts and the interval of config.ini.example.
CONSTANTS
    Requests <- OnePush
    Nightlies = {}
    NETCONFIGS <- OneNetconfig
    OPERATING_SYSTEMS <- OneSystem
    AskedNetconfigs <- AsksForAllNetconfigs
    AskedSystems <- AsksForAllSystems
    MaxAttempts = 6
    Interval = 10
    MaxMinutes = 60
    MaxFailures = 0
    MaxLosses = 0
SPECIFICATION Spec
INVARIANT
    TriesForADay
\* The master stops when every run is sent on or given up.
CHECK_DEADLOCK FALSE
