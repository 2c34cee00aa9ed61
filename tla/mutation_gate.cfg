SPECIFICATION Spec
CONSTANTS
    Workers = {1, 2}
    Ticker = ticker
    Files = {f1, f2}
    None = None
    PressureLimit = 2
    MaxStaged = 2
    Workloads <- MCWorkloads
    MaxFailures = 1
INVARIANT TypeOK
INVARIANT DurableIsWhole
INVARIANT EvictionSafe
INVARIANT EpochCovered
INVARIANT FsyncCovers
PROPERTY RequestsReturn
CHECK_DEADLOCK FALSE
