\* One srdns, one request and one stop.
CONSTANTS
    MaxProcs = 1
    MaxStops = 1
    MaxRequests = 1
SPECIFICATION Spec
PROPERTY
    StoppedDaemonsEnd
\* The machine has nothing to do after the last request.
CHECK_DEADLOCK FALSE
