\* Two pushes, two overlapping cron jobs, and room for one build.
CONSTANTS
    cron1 = cron1
    cron2 = cron2
    Requests <- TwoPushes
    Crons <- TwoCrons
    MaxAttempts = 2
    MaxFaults = 1
    OPERATING_SYSTEMS <- LinuxAndMac
    AskedSystems <- FirstAsksForAll
    keep = 1
SPECIFICATION Spec
SYMMETRY CronSymmetry
INVARIANTS
    TypeOK
    PushesRunOncePerProcess
    PushesAreQueued
    DiskIsBounded
    ClonedBuildsAreComplete
    MissedBuildsWereEvicted
\* The master stops when all pushes are handled.
CHECK_DEADLOCK FALSE
