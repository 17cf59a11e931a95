\* Three jobs on two netconfigs, and children that fail again and again.
CONSTANTS
    NETCONFIGS <- TwoNetconfigs
    Jobs <- ThreeJobs
    Netconfig <- GsmBetween
    RecursionLimit = 6
    MaxFaults <- BadChildren
SPECIFICATION Spec
INVARIANTS
    TypeOK
    NeverTestedInPublic
    TestedOnItsNetconfigIfUpdated
    ArchivedAndUploadedOnce
    DnsIsRestored
    NoPacketsSavedTwice
\* The machine has nothing to do after the last job.
CHECK_DEADLOCK FALSE
