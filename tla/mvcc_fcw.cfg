SPECIFICATION Spec
CONSTANTS
    Txns = {t1, t2}
    Readers = {r1}
    NumBlocks = 1
    Slots = {x1, x2}
    MaxCommit = 2
    MaxStage = 2
    MaxGc = 2
    Cap = 0
    CriticalFactor = 4
    Policies = {"SafeMerge"}
    Modes = {"fcw"}
    NoTxn = NoTxn
    None = None
    Identical = Identical
    Unsafe = Unsafe
SYMMETRY Symmetry
INVARIANT TypeOK
INVARIANT VersionsExact
INVARIANT AncestorAtSnapshot
CHECK_DEADLOCK FALSE
