SPECIFICATION Spec
CONSTANTS
    MaxAttempts = 4
    MaxFailures = 3
    MaxCrashes = 3
    Threshold = 3
    Placements = {"wal_dir"}
    Torn = Torn
    None = None
INVARIANT TypeOK
INVARIANT CursorsAgree
INVARIANT ViewIsAcknowledged
INVARIANT ReplayHasNoGap
PROPERTY ImplementsDurableLog
CHECK_DEADLOCK FALSE
