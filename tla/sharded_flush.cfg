SPECIFICATION Spec
CONSTANTS
    Txns = {t1, t2}
    Readers = {}
    Blocks = {0, 1}
    NumShards = 2
    MaxCommit = 2
    MaxJobs = 2
INVARIANT FlushDurable
CHECK_DEADLOCK FALSE
