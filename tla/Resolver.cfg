\* Three starts of srdns on a linux, mac or windows client, and one stop.
CONSTANTS
    MaxProcs = 3
    MaxStops = 1
    MaxRequests = 2
SPECIFICATION Spec
INVARIANTS
    TypeOK
    BackupIsOriginal
    AnswersAreTrue
    HalfSwitchedOnlyByFaults
    ServersCanBeRestored
    OneDaemonIfStopsAreWaitedFor
    PidFileIsOfTheDaemon
PROPERTY
    RequestsEnd
\* The machine has nothing to do after the last request.
CHECK_DEADLOCK FALSE
