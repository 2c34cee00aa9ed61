SPECIFICATION Spec
CONSTANTS
    HomeBlocks = {1, 2}
    LogSize = 7
    MaxCommits = 2
    MaxFailures = 2
    MaxCrashes = 2
    MaxFaults = 2
INVARIANT TypeOK
INVARIANT RecoversUnlessExposed
INVARIANT AcknowledgedKept
INVARIANT CommitsAreOld
CHECK_DEADLOCK FALSE
