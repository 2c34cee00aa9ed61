SPECIFICATION Spec
CONSTANTS
    Txns = {t1, t2}
    Readers = {}
    NumBlocks = 1
    Slots = {x1, x2}
    MaxCommit = 2
    MaxStage = 1
    MaxGc = 0
    Cap = 0
    CriticalFactor = 4
    Policies = {"SafeMerge"}
    Modes = {"journaled"}
    NoTxn = NoTxn
    None = None
    Identical = Identical
    Unsafe = Unsafe
PROPERTY JournaledCommitInstalls
CHECK_DEADLOCK FALSE
