\* One job, and a DNS that cannot be restored: run_process recurs too deep.
CONSTANTS
    NETCONFIGS <- TwoNetconfigs
    Jobs <- OneJob
    Netconfig <- Gsm
    RecursionLimit = 5
    MaxFaults <- BadUpdates
SPECIFICATION FairSpec
PROPERTY
    HandlesJobs
\* The machine has nothing to do after the last job.
CHECK_DEADLOCK FALSE
