SPECIFICATION FairSpec
CONSTANTS
    Txns = {t1, t2}
    Readers = {r1}
    Blocks = {0, 1}
    NumShards = 2
    MaxCommit = 2
    MaxJobs = 2
INVARIANT TypeOK
INVARIANT SnapshotComplete
PROPERTY AppendsInOrder
PROPERTY RegisteredViewStable
PROPERTY CommitReturns
CHECK_DEADLOCK FALSE
