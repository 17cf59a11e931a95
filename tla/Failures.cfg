\* One pushed run for two netconfigs, and two redeliveries on its way.  The limit
\* of attempts is the default of the configuration.
CONSTANTS
    Requests <- OnePush
    Nightlies = {}
    NETCONFIGS <- BothNetconfigs
    OPERATING_SYSTEMS <- OneSystem
    WebClients <- NoSystem
    AskedNetconfigs <- AsksForAllNetconfigs
    AskedSystems <- AsksForAllSystems
    MaxAttempts = 0
    MaxFailures = 2
    MaxLosses = 0
SPECIFICATION Spec
INVARIANTS
    NoJobLost
    OneCopyPerFailure
    AttemptBudget
    RunsKeepTheirTimestampWithoutFailures
\* The pipeline stops when every run is reported.
CHECK_DEADLOCK FALSE
